---- MODULE Spec2Model ----
(***************************************************************************)
(* Verification model of the youtube-video-generator pipeline.             *)
(*                                                                         *)
(*   SpecRetry     utils.handle_errors, one wrapped call at a time         *)
(*   SpecTopic     topic_discovery.TopicDiscovery.discover / get_best_topic*)
(*   SpecPipeline  main.VideoGeneratorPipeline.run with the reasoning      *)
(*                 chain of reasoning_engine.ReasoningEngine               *)
(*   SpecAssemble  video_assembler.VideoAssembler.assemble                 *)
(*                                                                         *)
(* Python values are written as strings: "None", "[]", "{}", "False".      *)
(* Text is a sequence of code points, each a one-element token.            *)
(***************************************************************************)
EXTENDS Integers, Sequences, FiniteSets, TLC

VARIABLES
    he_cfg,     \* arguments of the handle_errors decorator of the wrapped call
    he,         \* locals of handle_errors.wrapper and what it did so far
    td_in,      \* what the feeds answer during the current discover()
    td,         \* TopicDiscovery.discover / get_best_topic: call and result
    pl_in,      \* arguments of VideoGeneratorPipeline.run
    pl,         \* position and history of run()
    chain,      \* reasoning.current_chain (ReasoningChain or "None")
    disk,       \* persisted records and the text log
    asm_in,     \* the VideoProject handed to assemble() and its flags
    asm,        \* position, metrics and outputs of assemble()
    call_in,    \* arguments and environment of a call of one of the other functions
    call        \* position and result of that call

vars == <<he_cfg, he, td_in, td, pl_in, pl, chain, disk, asm_in, asm, call_in, call>>

retryVars == <<he_cfg, he>>
topicVars == <<td_in, td>>
pipeVars  == <<pl_in, pl, chain, disk>>
asmVars   == <<asm_in, asm>>
callVars  == <<call_in, call>>
otherVars == <<retryVars, topicVars, pipeVars, asmVars>>

None == "None"

(***************************************************************************)
(* Bounds of the model.                                                    *)
(***************************************************************************)
MaxRetryCount == 3
MaxLimit == 3
MaxListLen == 2
MaxVisuals == 6
MaxAudioSeconds == 2
FloatBits == 5
MaxChunks == 2
MaxDownloads == 2
MaxCues == 3
MaxCount == 8
MaxStock == 12
MaxWordLen == 3
MaxWords == 3
MaxBudget == 4
MaxLinesPerRun == 11
MaxCheckedVisuals == 2
MaxRuns == 2
MaxClock == 5
MaxUploads == 2
MaxVoiceChunks == 3
MaxOccurrences == 6
MaxScriptCues == 2
MaxQualityCalls == 3
MaxEngineCalls == 4

(***************************************************************************)
(* Generic helpers.                                                        *)
(***************************************************************************)
RECURSIVE Pow2(_)
Pow2(n) == IF n <= 0 THEN 1 ELSE 2 * Pow2(n - 1)

Min(a, b) == IF a <= b THEN a ELSE b

RECURSIVE Concat(_)
Concat(ss) == IF ss = <<>> THEN <<>> ELSE Head(ss) \o Concat(Tail(ss))

\* Python's xs[:n], negative n counting from the end
PySlicePrefix(xs, n) ==
    IF n >= 0 THEN SubSeq(xs, 1, Min(n, Len(xs)))
    ELSE SubSeq(xs, 1, IF Len(xs) + n > 0 THEN Len(xs) + n ELSE 0)

(***************************************************************************)
(* utils.handle_errors                                                     *)
(***************************************************************************)
log_errors == TRUE

\* the decorator arguments used at the call sites of the repository
RetryDelays == {1, 2, 5}
Fallbacks == {"None", "[]", "{}", "False"}

DecoratorArgs ==
    [retry_count : 0..MaxRetryCount, retry_delay : RetryDelays,
     fallback : Fallbacks, supplied : BOOLEAN]

\* a call site that passes no fallback gets the default, None
he_configs == {c \in DecoratorArgs : ~c.supplied => c.fallback = None}

\* mutant: the exponent counts attempts from 1
sleep_time_from_one(retry_delay, attempt) == retry_delay * Pow2(attempt + 1)

\* time.sleep argument after the failure of 0-based attempt `attempt`
sleep_time(retry_delay, attempt) == retry_delay * Pow2(attempt)

\* `if attempt < retry_count - 1`
more_attempts(retry_count, attempt) == attempt < retry_count - 1

\* mutant: `if fallback:`, which an empty list, an empty dict and False fail
use_fallback_truthy(fallback) == fallback \notin {"None", "[]", "{}", "False"}

\* `if fallback is not None`
use_fallback(fallback) == fallback # None

wrapper_idle ==
    [pc |-> "idle", attempt |-> 0, calls |-> 0, outcomes |-> <<>>,
     sleeps |-> <<>>, log |-> <<>>, result |-> None, exc |-> 0]

\* entering wrapper(): `for attempt in range(retry_count)`; an empty range
\* falls off the end of the function, which returns None
wrapper_enter(cfg) ==
    IF cfg.retry_count <= 0
    THEN [wrapper_idle EXCEPT !.pc = "returned"]
    ELSE [wrapper_idle EXCEPT !.pc = "running"]

\* one iteration of the loop: func is invoked and answers `out`
\* (out.ok: it returned out.val, otherwise it raised exception out.exc)
wrapper_attempt(cfg, st, out) ==
    LET n == st.attempt + 1
        st1 == [st EXCEPT !.calls = @ + 1,
                          !.outcomes = Append(@, IF out.ok THEN "ok" ELSE "fail")]
        logged == IF log_errors
                  THEN Append(st.log, [level |-> "error", attempt |-> n])
                  ELSE st.log
    IN  IF out.ok
        THEN [st1 EXCEPT !.pc = "returned", !.result = out.val,
                         !.log = IF st.attempt > 0
                                 THEN Append(@, [level |-> "info", attempt |-> n])
                                 ELSE @]
        ELSE IF more_attempts(cfg.retry_count, st.attempt)
        THEN [st1 EXCEPT !.log = logged,
                         !.sleeps = Append(@, sleep_time(cfg.retry_delay, st.attempt)),
                         !.attempt = @ + 1]
        ELSE IF use_fallback(cfg.fallback)
        THEN [st1 EXCEPT !.log = Append(logged, [level |-> "warning", attempt |-> n]),
                         !.pc = "returned", !.result = cfg.fallback]
        ELSE [st1 EXCEPT !.log = logged, !.pc = "raised", !.exc = out.exc]

\* the whole wrapper() call against the answers func gives, one per invocation
RECURSIVE wrapper_loop(_, _, _)
wrapper_loop(cfg, st, outs) ==
    IF st.pc # "running" THEN st
    ELSE wrapper_loop(cfg, wrapper_attempt(cfg, st, outs[st.calls + 1]), outs)

wrapper(cfg, outs) == wrapper_loop(cfg, wrapper_enter(cfg), outs)

RetryIdle == he_cfg = [retry_count |-> 0, retry_delay |-> 1, fallback |-> None, supplied |-> FALSE]
             /\ he = wrapper_idle

\* a call of the decorated function
WrapperCall ==
    /\ he.pc \in {"idle", "returned", "raised"}
    /\ he' = wrapper_enter(he_cfg)
    /\ UNCHANGED he_cfg

\* func returns "result"
AttemptReturns ==
    /\ he.pc = "running"
    /\ he' = wrapper_attempt(he_cfg, he, [ok |-> TRUE, val |-> "result", exc |-> 0])
    /\ UNCHANGED he_cfg

\* func raises; the exception of the n-th invocation is called n
AttemptRaises ==
    /\ he.pc = "running"
    /\ he' = wrapper_attempt(he_cfg, he, [ok |-> FALSE, val |-> None, exc |-> he.calls + 1])
    /\ UNCHANGED he_cfg


(***************************************************************************)
(* Text.  A str is a sequence of code points.  "I_dot" stands for U+0130,  *)
(* the one code point whose str.lower() is two code points (i, U+0307).    *)
(***************************************************************************)
UpperLetters ==
    <<"A", "B", "C", "D", "E", "F", "G", "H", "I", "J", "K", "L", "M", "N", "O", "P",
      "Q", "R", "S", "T", "U", "V", "W", "X", "Y", "Z">>

LowerLetters ==
    <<"a", "b", "c", "d", "e", "f", "g", "h", "i", "j", "k", "l", "m", "n", "o", "p",
      "q", "r", "s", "t", "u", "v", "w", "x", "y", "z">>

\* str.lower() of one code point
LowerChar(c) ==
    IF \E i \in 1..Len(UpperLetters) : UpperLetters[i] = c
    THEN <<LowerLetters[CHOOSE i \in 1..Len(UpperLetters) : UpperLetters[i] = c]>>
    ELSE IF c = "I_dot" THEN <<"i", "dot_above">>
    ELSE <<c>>

\* str.lower()
RECURSIVE Lower(_)
Lower(s) == IF s = <<>> THEN <<>> ELSE LowerChar(Head(s)) \o Lower(Tail(s))

\* `term in text`
Contains(text, term) ==
    \E i \in 1..(Len(text) - Len(term) + 1) : SubSeq(text, i, i + Len(term) - 1) = term

Pad(n) == [i \in 1..n |-> "x"]

(***************************************************************************)
(* config.CONTENT_CONFIG and the term lists of _calculate_score            *)
(***************************************************************************)
\* CONTENT_CONFIG["keywords"]
keywords ==
    <<
      <<"A", "I", " ", "l", "a", "y", "o", "f", "f", "s", " ", "2", "0", "2", "6">>,
      <<"r", "o", "b", "o", "t", "i", "c", "s", " ", "u", "n", "e", "m", "p", "l", "o",
        "y", "m", "e", "n", "t">>,
      <<"a", "r", "t", "i", "f", "i", "c", "i", "a", "l", " ", "i", "n", "t", "e", "l",
        "l", "i", "g", "e", "n", "c", "e", " ", "j", "o", "b", "s">>,
      <<"a", "u", "t", "o", "m", "a", "t", "i", "o", "n", " ", "j", "o", "b", " ", "l",
        "o", "s", "s">>,
      <<"h", "u", "m", "a", "n", "o", "i", "d", " ", "r", "o", "b", "o", "t", "s", " ",
        "w", "o", "r", "k", "e", "r", "s">>,
      <<"C", "h", "a", "t", "G", "P", "T", " ", "r", "e", "p", "l", "a", "c", "i", "n",
        "g", " ", "j", "o", "b", "s">>,
      <<"A", "I", " ", "m", "a", "s", "s", " ", "u", "n", "e", "m", "p", "l", "o", "y",
        "m", "e", "n", "t">>,
      <<"r", "o", "b", "o", "t", " ", "w", "o", "r", "k", "f", "o", "r", "c", "e", " ",
        "2", "0", "2", "6">>
    >>

high_value ==
    <<
      <<"m", "a", "s", "s", " ", "l", "a", "y", "o", "f", "f">>,
      <<"j", "o", "b", " ", "l", "o", "s", "s">>,
      <<"u", "n", "e", "m", "p", "l", "o", "y">>,
      <<"r", "e", "p", "l", "a", "c", "e">>,
      <<"a", "u", "t", "o", "m", "a", "t">>,
      <<"r", "o", "b", "o", "t">>
    >>

viral_terms ==
    <<
      <<"b", "r", "e", "a", "k", "i", "n", "g">>,
      <<"j", "u", "s", "t">>,
      <<"s", "h", "o", "c", "k">>,
      <<"w", "a", "r", "n">>,
      <<"c", "r", "i", "s", "i", "s">>,
      <<"f", "e", "a", "r">>,
      <<"m", "i", "l", "l", "i", "o", "n">>
    >>

year_2026 == <<"2", "0", "2", "6">>

year_2025 == <<"2", "0", "2", "5">>

reddit_subs == <<"Futurology", "singularity", "artificial", "technology">>

\* "AI layoffs hit 2 million workers in 2026"
ScenarioTitle ==
    <<"A", "I", " ", "l", "a", "y", "o", "f", "f", "s", " ", "h", "i", "t", " ", "2",
      " ", "m", "i", "l", "l", "i", "o", "n", " ", "w", "o", "r", "k", "e", "r", "s",
      " ", "i", "n", " ", "2", "0", "2", "6">>

\* the same headline in another case
ShoutedTitle ==
    <<"A", "I", " ", "L", "A", "Y", "O", "F", "F", "S", " ", "H", "I", "T", " ", "2",
      " ", "M", "I", "L", "L", "I", "O", "N", " ", "W", "O", "R", "K", "E", "R", "S",
      " ", "I", "N", " ", "2", "0", "2", "6">>

RobotsTitle ==
    <<"R", "o", "b", "o", "t", "s", " ", "r", "e", "p", "l", "a", "c", "e", " ", "w",
      "o", "r", "k", "e", "r", "s">>

CrisisSummary ==
    <<"A", " ", "c", "r", "i", "s", "i", "s", " ", "o", "f", " ", "m", "a", "s", "s",
      " ", "l", "a", "y", "o", "f", "f", "s">>

JobsSummary ==
    <<"a", "r", "t", "i", "f", "i", "c", "i", "a", "l", " ", "i", "n", "t", "e", "l",
      "l", "i", "g", "e", "n", "c", "e", " ", "j", "o", "b", "s", " ", "a", "n", "d",
      " ", "a", "u", "t", "o", "m", "a", "t", "i", "o", "n">>

(***************************************************************************)
(* topic_discovery.Topic objects the feeds can deliver.  `published` keeps *)
(* the format of the timestamp string and its age in days; `score` is the  *)
(* value the fetcher stores (0.0, or the Reddit post score); `source` is    *)
(* the source tag split after its "reddit_r/" prefix.                      *)
(***************************************************************************)
Topic(id, title, source, fmt, days_old, score, summary) ==
    [id |-> id, title |-> title, source |-> source,
     published |-> [fmt |-> fmt, days_old |-> days_old],
     score |-> score, keywords_matched |-> <<>>, summary |-> summary]

\* entries of the Google News RSS feeds: pubDate is an RFC 822 date; g5 is the
\* scenario headline from a feed that delivers ISO 8601 dates
GooglePool ==
    <<Topic("g1", ScenarioTitle, <<"google_news">>, "rfc822", 0, 0, <<>>),
      Topic("g2", ShoutedTitle, <<"google_news">>, "rfc822", 2, 0, CrisisSummary),
      Topic("g3", <<"I_dot">> \o Pad(48) \o <<"a">>, <<"google_news">>, "rfc822", 0, 0, <<>>),
      Topic("g4", <<"I_dot">> \o Pad(48) \o <<"b">>, <<"google_news">>, "rfc822", 0, 0, JobsSummary),
      Topic("g5", ScenarioTitle, <<"google_news">>, "iso", 0, 0, <<>>)>>

\* the post each subreddit can deliver (created.isoformat() timestamps)
RedditPool ==
    <<Topic("r1", Pad(50) \o <<"a">>, <<"reddit_r/", "Futurology">>, "iso", 0, 500, <<>>),
      Topic("r2", Pad(50) \o <<"b">>, <<"reddit_r/", "singularity">>, "iso", 2, 3000, CrisisSummary),
      Topic("r3", RobotsTitle, <<"reddit_r/", "artificial">>, "iso", 5, 0, <<>>),
      Topic("r4", ScenarioTitle, <<"reddit_r/", "technology">>, "iso", 9, 100, <<>>)>>

TopicPool == {GooglePool[i] : i \in 1..Len(GooglePool)} \cup {RedditPool[i] : i \in 1..Len(RedditPool)}

\* number of terms of `terms` found in `text`
CountMatches(terms, text, lower) ==
    Cardinality({i \in 1..Len(terms) :
                    Contains(text, IF lower THEN Lower(terms[i]) ELSE terms[i])})

\* datetime.fromisoformat(topic.published.replace("Z", "+00:00")) succeeds
fromisoformat_ok(published) == published.fmt = "iso"

\* the recency bonus; a timestamp that does not parse gives none (except: pass)
recency_bonus(published) ==
    IF ~fromisoformat_ok(published) THEN 0
    ELSE IF published.days_old <= 1 THEN 30
    ELSE IF published.days_old <= 3 THEN 15
    ELSE IF published.days_old <= 7 THEN 5
    ELSE 0

\* topic.source.startswith("reddit"): min(topic.score / 100, 20); the post
\* scores of RedditPool are multiples of 100, so the quotient is whole
reddit_bonus(topic) ==
    IF topic.source[1] = "reddit_r/" THEN Min(topic.score \div 100, 20) ELSE 0

\* `keyword.lower() in text` for each configured keyword
matched_keywords(text) ==
    SelectSeq([i \in 1..Len(keywords) |-> i],
              LAMBDA i : Contains(text, Lower(keywords[i])))

\* TopicDiscovery._calculate_score: the topic with score and keywords_matched set
calculate_score(topic) ==
    LET text == Lower(topic.title) \o <<" ">> \o Lower(topic.summary)
        score == 20 * Len(matched_keywords(text))
                 + 15 * CountMatches(high_value, text, FALSE)
                 + 5 * CountMatches(viral_terms, text, FALSE)
                 + (IF Contains(text, year_2026) \/ Contains(text, year_2025) THEN 10 ELSE 0)
                 + reddit_bonus(topic)
                 + recency_bonus(topic.published)
    IN  [topic EXCEPT !.score = score, !.keywords_matched = matched_keywords(text)]


(***************************************************************************)
(* TopicDiscovery.discover / get_best_topic                                *)
(***************************************************************************)
\* @handle_errors(retry_count=3, retry_delay=2.0, fallback=[]) of both fetchers
fetch_cfg == [retry_count |-> 3, retry_delay |-> 2, fallback |-> "[]", supplied |-> TRUE]

\* what a finished wrapper() call hands to its caller: the value func returned,
\* or the fallback object
returned_list(st) ==
    IF st.outcomes # <<>> /\ st.outcomes[Len(st.outcomes)] = "ok" THEN st.result
    ELSE IF st.result = "[]" THEN <<>>
    ELSE st.result

\* the answers of the feeds during one discover(): feedparser raises on the
\* first gn_fails attempts of fetch_google_news and then delivers gn_list
\* (never reached when all three attempts fail); each subreddit request
\* raises ("fail") or delivers its post
FeedAnswers ==
    {f \in [gn_fails : 0..3,
            gn_list : UNION {[1..n -> {GooglePool[i] : i \in 1..Len(GooglePool)}] :
                                n \in 0..MaxListLen},
            subs : [1..Len(reddit_subs) -> {"fail", "post"}]] :
        f.gn_fails >= fetch_cfg.retry_count => f.gn_list = <<>>}

\* one answer per invocation of fetch_google_news
google_outcomes(feeds) ==
    [i \in 1..fetch_cfg.retry_count |->
        IF i <= feeds.gn_fails
        THEN [ok |-> FALSE, val |-> None, exc |-> i]
        ELSE [ok |-> TRUE, val |-> feeds.gn_list, exc |-> 0]]

fetch_google_news(feeds) == wrapper(fetch_cfg, google_outcomes(feeds))

\* the body of the loop of fetch_reddit for subreddit i: the request is inside
\* try/except, and posts older than 7 days are skipped
reddit_sub_topics(answer, i) ==
    IF answer = "fail" THEN [ok |-> TRUE, val |-> <<>>]
    ELSE IF RedditPool[i].published.days_old > 7 THEN [ok |-> TRUE, val |-> <<>>]
    ELSE [ok |-> TRUE, val |-> <<RedditPool[i]>>]

\* one invocation of the undecorated fetch_reddit
fetch_reddit_body(feeds) ==
    LET per_sub == [i \in 1..Len(reddit_subs) |-> reddit_sub_topics(feeds.subs[i], i)]
    IN  IF \E i \in 1..Len(per_sub) : ~per_sub[i].ok
        THEN [ok |-> FALSE, val |-> None,
              exc |-> CHOOSE i \in 1..Len(per_sub) : ~per_sub[i].ok]
        ELSE [ok |-> TRUE, val |-> Concat([i \in 1..Len(per_sub) |-> per_sub[i].val]),
              exc |-> 0]

fetch_reddit(feeds) ==
    wrapper(fetch_cfg, [i \in 1..fetch_cfg.retry_count |-> fetch_reddit_body(feeds)])

\* scores of the pool, computed once
ScoredPool == [t \in TopicPool |-> calculate_score(t)]

\* insert t behind the last element whose score is not smaller (stable)
RECURSIVE InsertDesc(_, _)
InsertDesc(sorted, t) ==
    IF sorted = <<>> THEN <<t>>
    ELSE IF Head(sorted).score >= t.score THEN <<Head(sorted)>> \o InsertDesc(Tail(sorted), t)
    ELSE <<t>> \o sorted

\* mutant: reverse=True forgotten, lowest score first
RECURSIVE sorted_ascending(_)
sorted_ascending(ts) ==
    IF ts = <<>> THEN <<>>
    ELSE LET rest == sorted_ascending(Tail(ts))
             lower == SelectSeq(rest, LAMBDA u : u.score < Head(ts).score)
             upper == SelectSeq(rest, LAMBDA u : u.score >= Head(ts).score)
         IN  lower \o <<Head(ts)>> \o upper

\* sorted(all_topics, key=lambda t: t.score, reverse=True)
RECURSIVE sorted_by_score(_)
sorted_by_score(ts) ==
    IF ts = <<>> THEN <<>>
    ELSE InsertDesc(sorted_by_score(SubSeq(ts, 1, Len(ts) - 1)), ts[Len(ts)])

\* title_key = topic.title[:50].lower()
title_key(title) == Lower(PySlicePrefix(title, 50))

PoolTitles == {t.title : t \in TopicPool}

TitleKeys == [x \in PoolTitles |-> title_key(x)]

\* the dedup loop of discover
RECURSIVE unique_topics(_, _)
unique_topics(ranked, seen_titles) ==
    IF ranked = <<>> THEN <<>>
    ELSE LET key == TitleKeys[Head(ranked).title]
         IN  IF key \notin seen_titles
             THEN <<Head(ranked)>> \o unique_topics(Tail(ranked), seen_titles \cup {key})
             ELSE unique_topics(Tail(ranked), seen_titles)

\* discover(limit): raised, or all_topics (scored) and top_topics
discover(feeds, limit) ==
    LET gn == fetch_google_news(feeds)
        rd == fetch_reddit(feeds)
    IN  IF gn.pc = "raised" \/ rd.pc = "raised"
        THEN [raised |-> TRUE, all_topics |-> <<>>, top_topics |-> <<>>]
        ELSE LET fetched == returned_list(gn) \o returned_list(rd)
                 all_topics == [i \in 1..Len(fetched) |-> ScoredPool[fetched[i]]]
                 ranked == sorted_by_score(all_topics)
             IN  [raised |-> FALSE, all_topics |-> all_topics,
                  top_topics |-> PySlicePrefix(unique_topics(ranked, {}), limit)]

td_idle ==
    [op |-> "none", limit |-> 0, raised |-> FALSE, all_topics |-> <<>>,
     result |-> <<>>, best |-> <<>>]

\* a call of discover(limit)
Discover(limit) ==
    /\ td.op = "none"
    /\ LET r == discover(td_in, limit)
       IN  td' = [op |-> "discover", limit |-> limit, raised |-> r.raised,
                  all_topics |-> r.all_topics, result |-> r.top_topics, best |-> <<>>]
    /\ UNCHANGED td_in

\* a call of get_best_topic(): `topics[0] if topics else None`; best is the
\* returned topic in a one-element sequence, <<>> for None
GetBestTopic ==
    /\ td.op = "none"
    /\ LET r == discover(td_in, 1)
       IN  td' = [op |-> "get_best_topic", limit |-> 1, raised |-> r.raised,
                  all_topics |-> r.all_topics, result |-> r.top_topics,
                  best |-> IF r.top_topics # <<>> THEN <<r.top_topics[1]>> ELSE <<>>]
    /\ UNCHANGED td_in

\* the caller is done with the result
TopicReturn ==
    /\ td.op # "none"
    /\ td' = td_idle
    /\ UNCHANGED td_in


(***************************************************************************)
(* reasoning_engine.ReasoningEngine: the process-wide `reasoning` object.  *)
(* The engine is the pair of the current chain and the knowledge directory;*)
(* these operators take and return a context c with fields chain and disk  *)
(* (and pl, which they leave alone).                                       *)
(***************************************************************************)
\* current_chain = None
chain_none ==
    [active |-> FALSE, task_id |-> "", goal |-> "", thoughts |-> <<>>,
     decisions_made |-> <<>>, lessons_learned |-> <<>>, outcome |-> "", success |-> FALSE]

\* ReasoningChain(task_id=task_id, goal=goal)
ReasoningChain(task_id, goal) ==
    [chain_none EXCEPT !.active = TRUE, !.task_id = task_id, !.goal = goal]

\* a thought; its content is the pair of the message and the value formatted
\* into it ("" when the message is constant)
Thought(category, content) == [category |-> category, content |-> content]

\* ReasoningChain.add_thought
add_thought(ch, category, content) ==
    [ch EXCEPT !.thoughts = Append(@, Thought(category, content))]

\* _find_relevant_patterns(goal): a success pattern carries the first words of
\* its goal as keywords, which are substrings of the same goal
find_relevant_patterns(c, goal) == {k \in c.disk.patterns : k = <<"success", goal, "">>}

\* begin_reasoning: a new chain replaces the current one
begin_reasoning(c, task_id, goal) ==
    LET c1 == [c EXCEPT !.chain = add_thought(ReasoningChain(task_id, goal),
                                              "analysis", <<"Beginning task", goal>>)]
    IN  IF find_relevant_patterns(c, goal) # {}
        THEN [c1 EXCEPT !.chain = add_thought(@, "insight", <<"Found relevant patterns", "">>)]
        ELSE c1

\* think: starts an "unknown" chain when none is active
think(c, category, content) ==
    LET c1 == IF ~c.chain.active
              THEN begin_reasoning(c, "unknown", "Untracked reasoning")
              ELSE c
    IN  [c1 EXCEPT !.chain = add_thought(@, category, content)]

\* decide: dropped when no chain is active
decide(c, decision) ==
    IF c.chain.active
    THEN [c EXCEPT !.chain.decisions_made = Append(@, decision)]
    ELSE c

\* _extract_success_patterns / _extract_failure_patterns
extract_patterns(c, success) ==
    LET errors == SelectSeq(c.chain.thoughts, LAMBDA t : t.category = "error")
    IN  IF success
        THEN [c EXCEPT !.disk.patterns = @ \cup {<<"success", c.chain.goal, "">>},
                       !.chain.lessons_learned = Append(@, "Pattern stored")]
        ELSE IF errors # <<>>
        THEN [c EXCEPT !.disk.patterns =
                           @ \cup {<<"avoid", errors[1].content[1], errors[1].content[2]>>}]
        ELSE c

\* end_reasoning: nothing without a chain; otherwise the chain is completed,
\* written to its chain_*.json file, and current_chain becomes None
end_reasoning(c, success, outcome) ==
    IF ~c.chain.active THEN c
    ELSE LET c1 == [c EXCEPT !.chain.success = success, !.chain.outcome = outcome]
             c2 == extract_patterns(c1, success)
         IN  [c2 EXCEPT !.disk.chains = Append(@, [c2.chain EXCEPT !.active = FALSE]),
                       !.chain = chain_none]

\* one warning or error record of the text log (logging.Logger): the call it
\* is about and the exception it reports
logger(c, level, what, about) ==
    [c EXCEPT !.disk.log = Append(@, [level |-> level, what |-> what, about |-> about])]

disk_empty ==
    [chains |-> <<>>, patterns |-> {}, compliance_reports |-> <<>>,
     log |-> <<>>, files |-> {}]



(***************************************************************************)
(* Python floats, with a significand of FloatBits bits in place of 53: a   *)
(* float is m * 2^e with 2^(FloatBits-1) <= m < 2^FloatBits, or zero, and  *)
(* every operation rounds its exact result to the nearest float, ties to   *)
(* the even significand.                                                   *)
(***************************************************************************)
FloatZero == [m |-> 0, e |-> 0]

\* the float nearest to num / den * 2^e
RECURSIVE RoundToFloat(_, _, _)
RoundToFloat(num, den, e) ==
    IF num = 0 THEN FloatZero
    ELSE IF num >= den * Pow2(FloatBits) THEN RoundToFloat(num, den * 2, e + 1)
    ELSE IF num < den * Pow2(FloatBits - 1) THEN RoundToFloat(num * 2, den, e - 1)
    ELSE LET q == num \div den
             r == num % den
             m == IF 2 * r > den \/ (2 * r = den /\ q % 2 = 1) THEN q + 1 ELSE q
         IN  IF m = Pow2(FloatBits) THEN [m |-> Pow2(FloatBits - 1), e |-> e + 1]
             ELSE [m |-> m, e |-> e]

\* float(n) for a non-negative integer n
FloatOf(n) == RoundToFloat(n, 1, 0)

\* x / n for a float x and a positive integer n
FloatDiv(x, n) == RoundToFloat(x.m, n, x.e)

\* x + y
FloatAdd(x, y) ==
    IF x.m = 0 THEN y
    ELSE IF y.m = 0 THEN x
    ELSE LET lo == IF x.e < y.e THEN x.e ELSE y.e
         IN  RoundToFloat(x.m * Pow2(x.e - lo) + y.m * Pow2(y.e - lo), 1, lo)

\* the durations summed left to right, as concatenate_videoclips does
RECURSIVE FloatSum(_)
FloatSum(ds) ==
    IF ds = <<>> THEN FloatZero
    ELSE FloatAdd(FloatSum(SubSeq(ds, 1, Len(ds) - 1)), ds[Len(ds)])

(***************************************************************************)
(* video_assembler: AssemblyMetrics and VideoAssembler.assemble.  `a` is   *)
(* the state of one assemble() call: its position, its metrics object, the *)
(* fields of the project it updates, and the files it has written.         *)
(***************************************************************************)
\* the (start, end) positions _extract_shorts tries
ShortsPositions == 3

\* AssemblyMetrics.__init__
metrics_new ==
    [steps |-> <<>>, errors |-> <<>>, step_count |-> 0, finalized |-> FALSE,
     success |-> FALSE, total_steps |-> 0, total_errors |-> 0]

asm_idle ==
    [pc |-> "none", metrics |-> metrics_new, total_duration |-> FloatZero,
     segment_duration |-> FloatZero, visual_clips |-> <<>>,
     result_duration |-> FloatZero, output_path |-> None, shorts_paths |-> 0, output_dir |-> {}, logs_dir |-> <<>>,
     step_exc |-> "", exc |-> ""]

\* a project handed to assemble(): for each visual what _load_visual makes
\* of it (a clip, or None for a missing or unreadable file), whether the
\* audio file can be opened, its duration in seconds, and the two flags of
\* the call
AssembleInputs ==
    [visuals : UNION {[1..n -> {"clip", "none"}] : n \in 0..MaxVisuals},
     audio_ok : BOOLEAN, audio_duration : 1..MaxAudioSeconds,
     add_captions : BOOLEAN, generate_shorts : BOOLEAN]

\* what moviepy answers during the call
AssembleAnswers ==
    [concatenate_ok : BOOLEAN, captions_ok : BOOLEAN,
     render : {"ok", "fail", "fail_partial_file"}, shorts_ok : BOOLEAN,
     shorts : 0..ShortsPositions]

\* mutant: the step counter is not advanced
log_step_uncounted(a, step_name) ==
    [a EXCEPT !.metrics.steps = Append(@, [step |-> a.metrics.step_count + 1,
                                           name |-> step_name])]

\* AssemblyMetrics.log_step
log_step(a, step_name) ==
    [a EXCEPT !.metrics.step_count = @ + 1,
              !.metrics.steps = Append(@, [step |-> a.metrics.step_count + 1,
                                           name |-> step_name])]

\* AssemblyMetrics.log_error
log_error(a, error_type, recoverable) ==
    [a EXCEPT !.metrics.errors = Append(@, [type |-> error_type,
                                            recoverable |-> recoverable,
                                            step |-> a.metrics.step_count])]

\* AssemblyMetrics.finalize: the metrics are completed and written to the
\* logs directory
finalize(a, success) ==
    LET done == [a.metrics EXCEPT !.finalized = TRUE, !.success = success,
                                  !.total_steps = a.metrics.step_count,
                                  !.total_errors = Len(a.metrics.errors)]
    IN  [a EXCEPT !.metrics = done, !.logs_dir = Append(@, done)]

\* mutant: the except clause logs the error and lets the call return
assemble_except_returns(a, exc) ==
    [finalize(log_error(a, "assembly_failed", FALSE), FALSE) EXCEPT !.pc = "returned"]

\* the except clause of assemble()
assemble_except(a, exc) ==
    [finalize(log_error(a, "assembly_failed", FALSE), FALSE)
        EXCEPT !.pc = "raised", !.exc = exc]

\* a statement of the try block raises exc
raise_in_step(a, exc) == assemble_except([a EXCEPT !.step_exc = exc], exc)

\* metrics = AssemblyMetrics(project.id), then the try block is entered
assemble_enter(a) == [a EXCEPT !.pc = "load_audio", !.metrics = metrics_new]

\* step 1
load_audio(a, in) ==
    IF ~in.audio_ok THEN raise_in_step(a, "OSError: audio file")
    ELSE [log_step(a, "load_audio") EXCEPT !.pc = "calculate_timing",
                                           !.total_duration = FloatOf(in.audio_duration)]

\* mutant: the num_visuals == 0 test is missing
calculate_timing_unchecked(a, in) ==
    [log_step(a, "calculate_timing") EXCEPT !.pc = "load_visuals"]

\* step 2
calculate_timing(a, in) ==
    IF Len(in.visuals) = 0
    THEN raise_in_step(log_error(a, "no_visuals", FALSE), "ValueError: No visuals to assemble")
    ELSE [log_step(a, "calculate_timing")
            EXCEPT !.pc = "load_visuals",
                   !.segment_duration = FloatDiv(a.total_duration, Len(in.visuals))]

\* mutant: a visual that fails to load is skipped
RECURSIVE load_each_skipping(_, _, _)
load_each_skipping(a, visuals, i) ==
    IF i > Len(visuals) THEN a
    ELSE IF visuals[i] = "clip"
    THEN load_each_skipping(
            [a EXCEPT !.visual_clips = Append(@, [kind |-> "clip", visual |-> i,
                                                  duration |-> a.segment_duration])],
            visuals, i + 1)
    ELSE load_each_skipping(log_error(a, "visual_load_failed", TRUE), visuals, i + 1)

\* the loop of step 3 over project.visuals[i..]
RECURSIVE load_each(_, _, _)
load_each(a, visuals, i) ==
    IF i > Len(visuals) THEN a
    ELSE IF visuals[i] = "clip"
    THEN load_each([a EXCEPT !.visual_clips = Append(@, [kind |-> "clip", visual |-> i,
                                                         duration |-> a.segment_duration])],
                   visuals, i + 1)
    ELSE load_each(log_error([a EXCEPT !.visual_clips =
                                          Append(@, [kind |-> "placeholder", visual |-> i,
                                                     duration |-> a.segment_duration])],
                             "visual_load_failed", TRUE),
                   visuals, i + 1)

\* step 3
load_visuals(a, in) ==
    [log_step(load_each(a, in.visuals, 1), "load_visuals") EXCEPT !.pc = "concatenate_visuals"]

\* step 4
concatenate_visuals(a, in, ok) ==
    IF ~ok THEN raise_in_step(a, "concatenate_videoclips failed")
    ELSE [log_step(a, "concatenate_visuals")
            EXCEPT !.pc = IF in.add_captions THEN "add_captions" ELSE "add_audio",
                   !.result_duration =
                       FloatSum([i \in 1..Len(a.visual_clips) |-> a.visual_clips[i].duration])]

\* step 5
add_captions(a, ok) ==
    IF ~ok THEN raise_in_step(a, "TextClip failed")
    ELSE [log_step(a, "add_captions") EXCEPT !.pc = "add_audio"]

\* step 6
add_audio(a) == [log_step(a, "add_audio") EXCEPT !.pc = "render_video"]

\* step 7: write_videofile, then project.output_path = output_path
render_video(a, in, answer) ==
    IF answer = "fail" THEN raise_in_step(a, "write_videofile failed")
    ELSE IF answer = "fail_partial_file"
    THEN raise_in_step([a EXCEPT !.output_dir = @ \cup {"video.mp4"}],
                         "write_videofile failed")
    ELSE [log_step([a EXCEPT !.output_dir = @ \cup {"video.mp4"},
                             !.output_path = "video.mp4"], "render_video")
            EXCEPT !.pc = IF in.generate_shorts THEN "generate_shorts" ELSE "finalize"]

\* step 8: _extract_shorts catches the failure of a clip, but not one of
\* shorts_dir.mkdir
generate_shorts(a, ok, count) ==
    IF ~ok THEN raise_in_step(a, "OSError: shorts directory")
    ELSE
    [log_step([a EXCEPT !.shorts_paths = count,
                        !.output_dir = IF count > 0 THEN @ \cup {"shorts"} ELSE @],
              "generate_shorts")
        EXCEPT !.pc = "finalize"]

\* metrics.finalize(success=True); return project
assemble_return(a) == [finalize(a, TRUE) EXCEPT !.pc = "returned"]

\* the call from its current position to its end
RECURSIVE assemble_from(_, _, _)
assemble_from(a, in, ans) ==
    IF a.pc \in {"returned", "raised"} THEN a
    ELSE assemble_from(
           CASE a.pc = "none" -> assemble_enter(a)
             [] a.pc = "load_audio" -> load_audio(a, in)
             [] a.pc = "calculate_timing" -> calculate_timing(a, in)
             [] a.pc = "load_visuals" -> load_visuals(a, in)
             [] a.pc = "concatenate_visuals" -> concatenate_visuals(a, in, ans.concatenate_ok)
             [] a.pc = "add_captions" -> add_captions(a, ans.captions_ok)
             [] a.pc = "add_audio" -> add_audio(a)
             [] a.pc = "render_video" -> render_video(a, in, ans.render)
             [] a.pc = "generate_shorts" -> generate_shorts(a, ans.shorts_ok, ans.shorts)
             [] a.pc = "finalize" -> assemble_return(a),
           in, ans)

\* assemble(project, add_captions, generate_shorts)
assemble(in, ans) == assemble_from(asm_idle, in, ans)

\* the steps of a call, one action each
AssembleCall ==
    /\ asm.pc = "none"
    /\ asm' = assemble_enter(asm)
    /\ UNCHANGED asm_in

LoadAudio ==
    /\ asm.pc = "load_audio"
    /\ asm' = load_audio(asm, asm_in)
    /\ UNCHANGED asm_in

CalculateTiming ==
    /\ asm.pc = "calculate_timing"
    /\ asm' = calculate_timing(asm, asm_in)
    /\ UNCHANGED asm_in

LoadVisuals ==
    /\ asm.pc = "load_visuals"
    /\ asm' = load_visuals(asm, asm_in)
    /\ UNCHANGED asm_in

ConcatenateVisuals ==
    /\ asm.pc = "concatenate_visuals"
    /\ \E ok \in BOOLEAN : asm' = concatenate_visuals(asm, asm_in, ok)
    /\ UNCHANGED asm_in

AddCaptions ==
    /\ asm.pc = "add_captions"
    /\ \E ok \in BOOLEAN : asm' = add_captions(asm, ok)
    /\ UNCHANGED asm_in

AddAudio ==
    /\ asm.pc = "add_audio"
    /\ asm' = add_audio(asm)
    /\ UNCHANGED asm_in

RenderVideo ==
    /\ asm.pc = "render_video"
    /\ \E answer \in {"ok", "fail", "fail_partial_file"} :
          asm' = render_video(asm, asm_in, answer)
    /\ UNCHANGED asm_in

GenerateShorts ==
    /\ asm.pc = "generate_shorts"
    /\ \E ok \in BOOLEAN, count \in 0..ShortsPositions :
          /\ ~ok => count = 0
          /\ asm' = generate_shorts(asm, ok, count)
    /\ UNCHANGED asm_in

AssembleReturn ==
    /\ asm.pc = "finalize"
    /\ asm' = assemble_return(asm)
    /\ UNCHANGED asm_in


(***************************************************************************)
(* main.VideoGeneratorPipeline.  A context c is the triple of the pipeline *)
(* (pl), the reasoning engine's current chain and the files on disk; every *)
(* step of run() maps a context to the next one.                           *)
(***************************************************************************)
\* the progress.step() messages of run(), in program order
StageOrder ==
    <<"Topic Discovery", "Script Generation", "Visual Sourcing", "Voiceover Generation",
      "Video Assembly", "Metadata Generation", "Exporting Assets", "Quality Report">>

\* the arguments of run() and the API keys of the environment
PipelineInputs ==
    [topic : {None, "AI Mass Layoffs in 2026"}, auto_discover : BOOLEAN,
     skip_render : BOOLEAN, GEMINI_API_KEY : BOOLEAN, PEXELS_API_KEY : BOOLEAN]

pl_in_idle ==
    [topic |-> None, auto_discover |-> FALSE, skip_render |-> FALSE,
     GEMINI_API_KEY |-> FALSE, PEXELS_API_KEY |-> FALSE]

\* pc: the stage about to start ("generate": inside the retried call of the
\* script stage); stages: the progress.step() calls made; trace: starts,
\* attempts, ends and raises in the order they happened; failures: every
\* failure that occurred, whoever handled it
pl_idle ==
    [pc |-> "none", stages |-> <<>>, trace |-> <<>>, script |-> wrapper_idle,
     failures |-> <<>>, exc |-> "", topic |-> "", script_words |-> 0,
     visuals_count |-> 0, chunk_files |-> 0, output_path |-> None, result |-> None]

note(c, kind, what) == [c EXCEPT !.pl.failures = Append(@, [kind |-> kind, what |-> what])]

\* progress.step(message)
step(c, message) ==
    [c EXCEPT !.pl.stages = Append(@, message), !.pl.trace = Append(@, <<"start", message>>)]

\* control reaches the next progress.step()
stage_done(c, stage, next) ==
    [c EXCEPT !.pl.pc = next, !.pl.trace = Append(@, <<"end", stage>>)]

\* the answers of a function that raises err on its first `fails` invocations
answers(cfg, fails, val, err) ==
    [i \in 1..cfg.retry_count |->
        IF i <= fails THEN [ok |-> FALSE, val |-> None, exc |-> err]
        ELSE [ok |-> TRUE, val |-> val, exc |-> ""]]

\* what wrapper() wrote to the text log for its failed attempts
RECURSIVE record_attempts(_, _, _, _)
record_attempts(c, outcomes, what, i) ==
    IF i > Len(outcomes) THEN c
    ELSE record_attempts(IF outcomes[i] = "fail"
                         THEN logger(note(c, "attempt_failed", what), "error", what, "attempt failed")
                         ELSE c,
                         outcomes, what, i + 1)

\* a finished wrapper() call as its caller's run sees it
record_call(c, st, what) ==
    LET c1 == record_attempts(c, st.outcomes, what, 1)
    IN  IF st.pc = "returned" /\ st.outcomes # <<>> /\ st.outcomes[Len(st.outcomes)] = "fail"
        THEN logger(note(c1, "fallback", what), "warning", what, "using fallback")
        ELSE c1

\* _verify_configuration
verify_configuration(c, in) ==
    LET c1 == think(c, "analysis", <<"Verifying configuration and API keys", "">>)
        c2 == IF in.GEMINI_API_KEY
              THEN think(c1, "observation", <<"Gemini API key present", "">>)
              ELSE c1
        c3 == IF in.PEXELS_API_KEY
              THEN think(c2, "observation", <<"Pexels API key present", "">>)
              ELSE decide(c2, "Use AI-generated images only")
        c4 == IF in.GEMINI_API_KEY THEN c3
              ELSE logger(c3, "warning", "_verify_configuration", "GEMINI_API_KEY not set")
    IN  IF in.PEXELS_API_KEY THEN c4
        ELSE logger(c4, "warning", "_verify_configuration", "PEXELS_API_KEY not set")

\* VideoGeneratorPipeline(): a fresh process, an empty knowledge directory
pipeline_init(in) ==
    verify_configuration(
        begin_reasoning([pl |-> [pl_idle EXCEPT !.pc = "constructed"],
                         chain |-> chain_none, disk |-> disk_empty],
                        "pipeline", "Generate complete YouTube video about AI/robotics"),
        in)

\* the stage after `stage`
next_stage(stage) ==
    LET i == CHOOSE k \in 1..Len(StageOrder) : StageOrder[k] = stage
    IN  IF i < Len(StageOrder) THEN StageOrder[i + 1] ELSE "returned"

\* mutant: the exception is swallowed and the run goes on with the next stage
except_continue(c, stage, exc) ==
    [c EXCEPT !.pl.pc = next_stage(stage), !.pl.trace = Append(@, <<"raise", stage>>)]

\* the except clause of run(): an error thought, the chain ended with
\* success=False, an error record, and the exception raised again
run_except(c, stage, exc) ==
    LET c1 == think(c, "error", <<"Pipeline failed", exc>>)
        c2 == end_reasoning(c1, FALSE, exc)
        c3 == logger(c2, "error", "run", exc)
    IN  [note(c3, "fatal", exc) EXCEPT !.pl.pc = "raised", !.pl.exc = exc,
                                       !.pl.trace = Append(@, <<"raise", stage>>)]

\* run() up to the try block
run_enter(c) ==
    [think(c, "analysis", <<"Starting pipeline run", "project_id">>)
        EXCEPT !.pl.pc = "Topic Discovery"]

\* the feeds a run may meet: every source down, or Google News answering
\* on its second attempt
PipelineFeeds ==
    {[gn_fails |-> 3, gn_list |-> <<>>, subs |-> [i \in 1..Len(reddit_subs) |-> "fail"]],
     [gn_fails |-> 1, gn_list |-> <<GooglePool[5]>>,
      subs |-> [i \in 1..Len(reddit_subs) |-> "post"]]}

\* the failures inside get_best_topic(), none of which reaches run()
record_discovery(c, feeds) ==
    LET c1 == record_call(c, fetch_google_news(feeds), "fetch_google_news")
    IN  IF \E i \in 1..Len(reddit_subs) : feeds.subs[i] = "fail"
        THEN logger(note(c1, "source_failed", "fetch_reddit"),
                    "warning", "fetch_reddit", "Reddit fetch failed")
        ELSE c1

\* step 1
topic_discovery(c, in, feeds) ==
    LET c1 == think(step(c, "Topic Discovery"), "analysis",
                    <<"Beginning topic discovery phase", "">>)
    IN  IF in.auto_discover \/ in.topic = None
        THEN LET c2 == record_discovery(decide(c1, "Auto-discover trending topic"), feeds)
                 topics == discover(feeds, 1).top_topics
             IN  IF topics = <<>>
                 THEN run_except(think(c2, "error",
                                       <<"No topics discovered from news sources", "">>),
                                 "Topic Discovery",
                                 "RuntimeError: Failed to discover any topics")
                 ELSE stage_done(think([c2 EXCEPT !.pl.topic = topics[1].id], "insight",
                                       <<"Best topic scored", topics[1].id>>),
                                 "Topic Discovery", "Script Generation")
        ELSE stage_done(think([c1 EXCEPT !.pl.topic = in.topic], "observation",
                              <<"Using provided topic", in.topic>>),
                        "Topic Discovery", "Script Generation")


\* mutant: generate decorated with a fallback
script_cfg_with_fallback ==
    [retry_count |-> 3, retry_delay |-> 5, fallback |-> "{}", supplied |-> TRUE]

\* @handle_errors(retry_count=3, retry_delay=5.0) of ScriptGenerator.generate
script_cfg == [retry_count |-> 3, retry_delay |-> 5, fallback |-> None, supplied |-> FALSE]

\* the exception the text service raises on each invocation of generate
ScriptErrors == <<"gemini_error_1", "gemini_error_2", "gemini_error_3">>

\* word counts on both sides of `script.word_count < 1500`
ScriptWordCounts == {1200, 2400}

\* step 2 up to the call of generate: ScriptGenerator() raises without a key
script_generation(c, in) ==
    LET c1 == think(step(c, "Script Generation"), "analysis",
                    <<"Beginning script generation with Gemini", "">>)
    IN  IF ~in.GEMINI_API_KEY
        THEN run_except(c1, "Script Generation", "ValueError: GEMINI_API_KEY required")
        ELSE [c1 EXCEPT !.pl.pc = "generate", !.pl.script = wrapper_enter(script_cfg)]

\* one attempt of script_gen.generate(topic_obj) and, when the wrapper is
\* done, the rest of step 2
script_attempt(c, ok, words) ==
    LET err == ScriptErrors[c.pl.script.calls + 1]
        st == wrapper_attempt(script_cfg, c.pl.script,
                              [ok |-> ok, val |-> "Script", exc |-> err])
        c1 == [c EXCEPT !.pl.script = st,
                        !.pl.trace = Append(@, <<"attempt", "Script Generation">>)]
        c2 == IF ok THEN c1
              ELSE logger(note(c1, "attempt_failed", err), "error", "generate", err)
    IN  IF st.pc = "raised" THEN run_except(c2, "Script Generation", st.exc)
        ELSE IF st.pc = "returned"
        THEN stage_done(IF words < 1500
                        THEN think([c2 EXCEPT !.pl.script_words = words], "observation",
                                   <<"Script shorter than optimal", "">>)
                        ELSE think([c2 EXCEPT !.pl.script_words = words], "insight",
                                   <<"Script meets target length", "">>),
                        "Script Generation", "Visual Sourcing")
        ELSE c2

\* the decorators of the stock searches, download_visual, _generate_chunk
\* and MetadataGenerator.generate
search_cfg == [retry_count |-> 2, retry_delay |-> 1, fallback |-> "[]", supplied |-> TRUE]
download_cfg == [retry_count |-> 3, retry_delay |-> 2, fallback |-> None, supplied |-> FALSE]
chunk_cfg == [retry_count |-> 2, retry_delay |-> 2, fallback |-> None, supplied |-> FALSE]
metadata_cfg == [retry_count |-> 2, retry_delay |-> 1, fallback |-> None, supplied |-> TRUE]

\* what the providers answer in step 3: the stock results found, the
\* [VISUAL: ...] cues of the script, the attempts of one search that fail, and
\* the downloads that fail for good
VisualAnswers ==
    {v \in [stock : {0, 12}, cues : {0, 15}, search_fails : 0..search_cfg.retry_count,
            lost : {"none", "one", "all"}] :
        /\ v.cues > 0 => v.stock = 0 /\ v.search_fails = 0
        /\ v.search_fails = 1 => v.stock > 0 /\ v.lost = "none"
        /\ v.search_fails = 2 => v.stock = 0}

\* the generic_prompts of generate_ai_images_from_script
generic_prompts ==
    <<"futuristic humanoid robot", "neural network visualization", "worried office workers",
      "automation factory", "person shaking hands with android">>

\* `for prompt in generic_prompts[:count - len(visuals)]`
pad_with_generic(visuals, count) ==
    visuals \o [j \in 1..Len(PySlicePrefix(generic_prompts, count - Len(visuals))) |->
                   <<"generic", generic_prompts[j]>>]

\* generate_ai_images_from_script(script_text, count) for a script with
\* `cues` [VISUAL: ...] markers and a count >= 0: one image per cue of
\* visual_cues[:count], then the generic prompts
generate_ai_images_from_script(cues, count) ==
    LET visuals == [i \in 1..Min(cues, count) |-> <<"cue", "cue">>]
    IN  IF Len(visuals) < count THEN pad_with_generic(visuals, count) ELSE visuals

\* len(generate_ai_images_from_script(script, count))
ai_images(cues, count) == Len(generate_ai_images_from_script(cues, count))

\* len(collect_visuals_for_topic(..., target_count))
collect_visuals_for_topic(v, target_count) ==
    Min(target_count, v.stock + ai_images(v.cues, IF target_count - v.stock > 5
                                                  THEN target_count - v.stock ELSE 5))

\* step 3
visual_sourcing(c, v) ==
    LET c1 == think(step(c, "Visual Sourcing"), "analysis",
                    <<"Sourcing visuals from stock + AI generation", "">>)
        c2 == record_call(c1, wrapper(search_cfg, answers(search_cfg, v.search_fails, "[...]",
                                                          "HTTPError")),
                          "search_pexels_videos")
        collected == collect_visuals_for_topic(v, 15)
        c3 == think(c2, "observation", <<"Collected visuals", "">>)
        c4 == IF collected < 10 THEN decide(c3, "Generate additional AI images") ELSE c3
        total == IF collected < 10 THEN collected + ai_images(v.cues, 15 - collected)
                 ELSE collected
        downloaded == IF v.lost = "none" THEN total
                      ELSE IF v.lost = "one" THEN total - 1 ELSE 0
        c5 == IF v.lost = "none" THEN c4
              ELSE logger(note(record_call(c4, wrapper(download_cfg,
                                                       answers(download_cfg, 3, None, "HTTPError")),
                                           "download_visual"),
                               "dropped", "download_visual"),
                          "warning", "download_all", "Failed to download")
    IN  stage_done([c5 EXCEPT !.pl.visuals_count = downloaded],
                   "Visual Sourcing", "Voiceover Generation")

\* the failing attempts of each chunk of the narration
VoiceAnswers == UNION {[1..n -> 0..chunk_cfg.retry_count] : n \in 0..MaxChunks}

\* the loop of Voiceover.generate over chunks[i..]
RECURSIVE generate_chunks(_, _, _)
generate_chunks(c, fails, i) ==
    IF i > Len(fails) THEN c
    ELSE LET st == wrapper(chunk_cfg, answers(chunk_cfg, fails[i], "chunk.mp3", "gTTSError"))
             c1 == record_call(c, st, "_generate_chunk")
         IN  generate_chunks(IF st.pc = "raised"
                             THEN logger(note(c1, "dropped", "_generate_chunk"),
                                         "error", "generate", "Failed to generate chunk")
                             ELSE [c1 EXCEPT !.pl.chunk_files = @ + 1],
                             fails, i + 1)

\* step 4
voiceover_generation(c, fails) ==
    LET c1 == think(step(c, "Voiceover Generation"), "analysis",
                    <<"Generating voiceover audio with gTTS", "">>)
        c2 == generate_chunks(c1, fails, 1)
    IN  IF c2.pl.chunk_files = 0
        THEN run_except(c2, "Voiceover Generation", "RuntimeError: No audio chunks generated")
        ELSE stage_done(think(c2, "observation", <<"Voiceover duration", "">>),
                        "Voiceover Generation", "Video Assembly")

\* what moviepy answers when run() assembles: all well, or the render fails
PipelineAssembleAnswers ==
    {ans \in AssembleAnswers :
        /\ ans.concatenate_ok /\ ans.captions_ok
        /\ ans.shorts_ok /\ ans.shorts = ShortsPositions
        /\ ans.render \in {"ok", "fail"}}

\* step 5
video_assembly(c, in, ans) ==
    LET c1 == step(c, "Video Assembly")
    IN  IF in.skip_render
        THEN stage_done(think(c1, "decision", <<"Skipping video render (test mode)", "">>),
                        "Video Assembly", "Metadata Generation")
        ELSE LET a == assemble([visuals |-> [i \in 1..c.pl.visuals_count |-> "clip"],
                                audio_ok |-> TRUE, audio_duration |-> c.pl.chunk_files,
                                add_captions |-> TRUE,
                                generate_shorts |-> TRUE], ans)
                 c2 == think(c1, "analysis", <<"Beginning video assembly with MoviePy", "">>)
                 c3 == [c2 EXCEPT !.disk.files = @ \cup a.output_dir]
             IN  IF a.pc = "raised"
                 THEN run_except(logger(c3, "error", "assemble", a.exc), "Video Assembly", a.exc)
                 ELSE stage_done(think([c3 EXCEPT !.pl.output_path = a.output_path],
                                       "insight", <<"Video rendered", a.output_path>>),
                                 "Video Assembly", "Metadata Generation")

\* step 6
metadata_generation(c, fails) ==
    LET c1 == think(step(c, "Metadata Generation"), "analysis",
                    <<"Generating YouTube metadata", "">>)
        st == wrapper(metadata_cfg, answers(metadata_cfg, fails, "VideoMetadata", "metadata_error"))
        c2 == record_call(c1, st, "MetadataGenerator.generate")
    IN  IF st.pc = "raised" THEN run_except(c2, "Metadata Generation", st.exc)
        ELSE stage_done(think([c2 EXCEPT !.disk.files = @ \cup {"metadata.json"}],
                              "observation", <<"Generated title options", "">>),
                        "Metadata Generation", "Exporting Assets")

\* step 7
exporting_assets(c) ==
    stage_done([step(c, "Exporting Assets") EXCEPT !.disk.files = @ \cup {"script.md"}],
               "Exporting Assets", "Quality Report")

\* step 8, the end of the chain and `return output_path`
quality_report(c) ==
    LET c1 == [step(c, "Quality Report") EXCEPT !.disk.files = @ \cup {"quality_metrics"}]
        c2 == end_reasoning(c1, TRUE, "Generated video")
    IN  [stage_done(c2, "Quality Report", "returned") EXCEPT !.pl.result = c.pl.output_path]

\* a KeyboardInterrupt between two stages: `except Exception` lets it pass
run_interrupted(c) ==
    [note(c, "fatal", "KeyboardInterrupt")
        EXCEPT !.pl.pc = "interrupted", !.pl.exc = "KeyboardInterrupt",
               !.pl.trace = Append(@, <<"raise", "run">>)]

ctx == [pl |-> pl, chain |-> chain, disk |-> disk]
Becomes(c) == pl' = c.pl /\ chain' = c.chain /\ disk' = c.disk /\ UNCHANGED pl_in

RunEnter == pl.pc = "constructed" /\ Becomes(run_enter(ctx))

TopicDiscoveryStage ==
    /\ pl.pc = "Topic Discovery"
    /\ \E feeds \in PipelineFeeds : Becomes(topic_discovery(ctx, pl_in, feeds))

ScriptGenerationStage ==
    /\ pl.pc = "Script Generation"
    /\ Becomes(script_generation(ctx, pl_in))

ScriptAttempt ==
    /\ pl.pc = "generate"
    /\ \E ok \in BOOLEAN, words \in ScriptWordCounts :
          /\ ~ok => words = 1200
          /\ Becomes(script_attempt(ctx, ok, words))

VisualSourcingStage ==
    /\ pl.pc = "Visual Sourcing"
    /\ \E v \in VisualAnswers : Becomes(visual_sourcing(ctx, v))

VoiceoverGenerationStage ==
    /\ pl.pc = "Voiceover Generation"
    /\ \E fails \in VoiceAnswers : Becomes(voiceover_generation(ctx, fails))

VideoAssemblyStage ==
    /\ pl.pc = "Video Assembly"
    /\ \E ans \in PipelineAssembleAnswers : Becomes(video_assembly(ctx, pl_in, ans))

MetadataGenerationStage ==
    /\ pl.pc = "Metadata Generation"
    /\ \E fails \in 0..metadata_cfg.retry_count : Becomes(metadata_generation(ctx, fails))

ExportingAssetsStage == pl.pc = "Exporting Assets" /\ Becomes(exporting_assets(ctx))

QualityReportStage == pl.pc = "Quality Report" /\ Becomes(quality_report(ctx))

Interrupt ==
    /\ pl.pc \in {StageOrder[i] : i \in 1..Len(StageOrder)} \cup {"generate"}
    /\ Becomes(run_interrupted(ctx))


(***************************************************************************)
(* visual_sourcer.VisualSourcer.download_visual / download_all.  A visual  *)
(* is named by its id, which is also the name of its file in the download  *)
(* directory.                                                              *)
(***************************************************************************)
\* how the server of a visual treats the GET requests for it
ServerKinds == {"ok", "ok_on_retry", "status_error", "broken_stream"}

DownloadInputs ==
    [visuals : UNION {[1..n -> 1..MaxDownloads] : n \in 0..MaxDownloads},
     server : [1..MaxDownloads -> ServerKinds]]

\* the outcome of the k-th GET for a visual: the whole body, an error status
\* (raise_for_status raises before the file is opened), or a stream that
\* breaks while the file is being written
server_answer(kind, k) ==
    IF kind = "ok" THEN "ok"
    ELSE IF kind = "ok_on_retry" THEN (IF k = 1 THEN "status_error" ELSE "ok")
    ELSE kind

download_idle ==
    [pc |-> "none", i |-> 1, files |-> [v \in 1..MaxDownloads |-> "absent"],
     gets |-> [v \in 1..MaxDownloads |-> 0], downloaded |-> <<>>,
     warnings |-> <<>>, raised |-> FALSE]

\* one invocation of the undecorated download_visual: d is the call state
\* with the files of the download directory
download_body(d, v, server) ==
    IF d.files[v] # "absent" THEN [ok |-> TRUE, d |-> d]
    ELSE LET answer == server_answer(server[v], d.gets[v] + 1)
             d1 == [d EXCEPT !.gets[v] = @ + 1]
         IN  IF answer = "ok" THEN [ok |-> TRUE, d |-> [d1 EXCEPT !.files[v] = "complete"]]
             ELSE IF answer = "broken_stream"
             THEN [ok |-> FALSE, d |-> [d1 EXCEPT !.files[v] = "partial"]]
             ELSE [ok |-> FALSE, d |-> d1]

\* download_visual under its decorator, from wrapper state st on
RECURSIVE download_visual(_, _, _, _)
download_visual(st, d, v, server) ==
    IF st.pc # "running" THEN [st |-> st, d |-> d]
    ELSE LET r == download_body(d, v, server)
         IN  download_visual(wrapper_attempt(download_cfg, st,
                                             [ok |-> r.ok, val |-> v, exc |-> "HTTPError"]),
                             r.d, v, server)

\* one iteration of the loop of download_all
download_next(d, in) ==
    LET v == in.visuals[d.i]
        r == download_visual(wrapper_enter(download_cfg), d, v, in.server)
    IN  IF r.st.pc = "returned"
        THEN [r.d EXCEPT !.i = @ + 1,
                         !.downloaded = Append(@, [id |-> v, local_path |-> v])]
        ELSE [r.d EXCEPT !.i = @ + 1, !.warnings = Append(@, v)]

DownloadAllCall ==
    /\ call.pc = "none"
    /\ call' = [call EXCEPT !.pc = "loop"]
    /\ UNCHANGED call_in

DownloadNext ==
    /\ call.pc = "loop" /\ call.i <= Len(call_in.visuals)
    /\ call' = download_next(call, call_in)
    /\ UNCHANGED call_in

DownloadAllReturn ==
    /\ call.pc = "loop" /\ call.i > Len(call_in.visuals)
    /\ call' = [call EXCEPT !.pc = "returned"]
    /\ UNCHANGED call_in


(***************************************************************************)
(* Calls of generate_ai_images_from_script and collect_visuals_for_topic   *)
(* on a script with call_in.cues visual cues, when the stock searches      *)
(* deliver call_in.stock results.                                          *)
(***************************************************************************)
AiImageInputs == [cues : 0..MaxCues, count : 0..MaxCount, stock : 0..MaxStock]

ai_idle == [op |-> "none", images |-> <<>>, collected |-> 0]

GenerateAiImages ==
    /\ call.op = "none"
    /\ call' = [op |-> "generate_ai_images_from_script",
                images |-> generate_ai_images_from_script(call_in.cues, call_in.count),
                collected |-> 0]
    /\ UNCHANGED call_in

CollectVisuals ==
    /\ call.op = "none"
    /\ call' = [op |-> "collect_visuals_for_topic", images |-> <<>>,
                collected |-> collect_visuals_for_topic(call_in, 15)]
    /\ UNCHANGED call_in

AiImagesReturn ==
    /\ call.op # "none"
    /\ call' = ai_idle
    /\ UNCHANGED call_in


(***************************************************************************)
(* utils.chunk_text.  A text is a sequence of characters.                  *)
(***************************************************************************)
\* str.split(): the maximal runs of non-blank characters
RECURSIVE SplitFrom(_, _, _)
SplitFrom(text, i, word) ==
    IF i > Len(text) THEN (IF word = <<>> THEN <<>> ELSE <<word>>)
    ELSE IF text[i] = " "
    THEN (IF word = <<>> THEN <<>> ELSE <<word>>) \o SplitFrom(text, i + 1, <<>>)
    ELSE SplitFrom(text, i + 1, Append(word, text[i]))

Split(text) == SplitFrom(text, 1, <<>>)

\* ' '.join(parts)
RECURSIVE JoinSpace(_)
JoinSpace(parts) ==
    IF parts = <<>> THEN <<>>
    ELSE IF Len(parts) = 1 THEN parts[1]
    ELSE parts[1] \o <<" ">> \o JoinSpace(Tail(parts))

\* re.sub(r'\s+', ' ', text): every run of blanks becomes one blank
RECURSIVE CollapseWhitespace(_)
CollapseWhitespace(text) ==
    IF Len(text) < 2 THEN text
    ELSE IF text[1] = " " /\ text[2] = " " THEN CollapseWhitespace(Tail(text))
    ELSE <<text[1]>> \o CollapseWhitespace(Tail(text))

\* the words of the narrations: a letter repeated
NarrationWords == UNION {[1..n -> {x}] : n \in 1..MaxWordLen, x \in {"a", "b"}}

\* cleaned narration texts (_clean_text_for_speech collapses the whitespace
\* and strips the ends) and the budgets of a call
ChunkInputs ==
    [text : {JoinSpace(ws) : ws \in UNION {[1..n -> NarrationWords] : n \in 0..MaxWords}},
     max_chars : 1..MaxBudget]

chunk_idle ==
    [pc |-> "none", words |-> <<>>, i |-> 1, chunks |-> <<>>, current_chunk |-> <<>>,
     current_len |-> 0]

\* mutant: the separating blank is not counted
overflows_without_blank(current_len, word, max_chars) == current_len + Len(word) > max_chars

\* `current_len + len(word) + 1 > max_chars`
overflows(current_len, word, max_chars) == current_len + Len(word) + 1 > max_chars

\* the body of the loop for one word
chunk_word(k, max_chars) ==
    LET word == k.words[k.i]
    IN  IF overflows(k.current_len, word, max_chars)
        THEN [k EXCEPT !.chunks = Append(@, JoinSpace(k.current_chunk)),
                       !.current_chunk = <<word>>, !.current_len = Len(word), !.i = @ + 1]
        ELSE [k EXCEPT !.current_chunk = Append(@, word),
                       !.current_len = @ + Len(word) + 1, !.i = @ + 1]

\* after the loop: `if current_chunk: chunks.append(...)`, return chunks
chunk_finish(k) ==
    [k EXCEPT !.pc = "returned",
              !.chunks = IF k.current_chunk # <<>>
                         THEN Append(@, JoinSpace(k.current_chunk)) ELSE @]

\* chunk_text(text, max_chars)
RECURSIVE chunk_loop(_, _)
chunk_loop(k, max_chars) ==
    IF k.i > Len(k.words) THEN chunk_finish(k) ELSE chunk_loop(chunk_word(k, max_chars), max_chars)

chunk_text(text, max_chars) ==
    chunk_loop([chunk_idle EXCEPT !.pc = "loop", !.words = Split(text)], max_chars).chunks

ChunkTextCall ==
    /\ call.pc = "none"
    /\ call' = [chunk_idle EXCEPT !.pc = "loop", !.words = Split(call_in.text)]
    /\ UNCHANGED call_in

ChunkWord ==
    /\ call.pc = "loop" /\ call.i <= Len(call.words)
    /\ call' = chunk_word(call, call_in.max_chars)
    /\ UNCHANGED call_in

ChunkTextReturn ==
    /\ call.pc = "loop" /\ call.i > Len(call.words)
    /\ call' = chunk_finish(call)
    /\ UNCHANGED call_in


(***************************************************************************)
(* MetadataGenerator._generate_titles.  A line of the response is a        *)
(* sequence of tokens: "1" a run of digits, "." one of the characters . ), *)
(* "T" a run of other text.                                                *)
(***************************************************************************)
ResponseLines == {<<"1", ".", "T">>, <<"1", "T">>, <<"T">>, <<"1", ".">>, <<>>}

Repeat(line, n) == [i \in 1..n |-> line]

\* what the text service does with the prompt: there is no model, the call
\* raises, or it answers with lines of text
TitleInputs ==
    {[service |-> sv, lines |-> <<>>] : sv \in {"no_model", "raises"}}
    \cup {[service |-> "text", lines |-> Repeat(l1, n1) \o Repeat(l2, n2)] :
            l1 \in ResponseLines, l2 \in ResponseLines,
            n1 \in 0..MaxLinesPerRun, n2 \in 0..MaxLinesPerRun}

titles_idle == [pc |-> "none", i |-> 1, titles |-> <<>>]

\* `line and line[0].isdigit()`
starts_with_digit(line) == line # <<>> /\ line[1] = "1"

\* re.sub(r'^\d+[\.\)]\s*', '', line)
strip_number(line) ==
    IF Len(line) >= 2 /\ line[1] = "1" /\ line[2] = "." THEN SubSeq(line, 3, Len(line)) ELSE line

\* the body of the loop over the lines of the response
parse_line(t, line) ==
    IF starts_with_digit(line) /\ strip_number(line) # <<>>
    THEN [t EXCEPT !.titles = Append(@, strip_number(line)), !.i = @ + 1]
    ELSE [t EXCEPT !.i = @ + 1]

\* the fallback templates
template_titles(topic) ==
    << <<"robot", topic, "- What You Need to Know in 2026">>,
       <<"WARNING:", topic, "Is Changing Everything">>,
       <<"The Truth About", topic, "(Nobody's Talking About This)">>,
       <<"How", topic, "Will Affect Your Career in 2026">>,
       <<topic, "Explained: The Complete 2026 Breakdown">>,
       <<"BREAKING:", topic, "- Full Analysis">>,
       <<"Why", topic, "Should Worry Everyone">>,
       <<"I Researched", topic, "- Here's What I Found">>,
       <<topic, ": Opportunities vs Threats [Expert Analysis]">>,
       <<"The Future of Work:", topic, "in 2026">> >>

\* `if self.model:` and the generate_content call
GenerateTitlesCall ==
    /\ call.pc = "none"
    /\ call' = [titles_idle EXCEPT !.pc = IF call_in.service = "text" THEN "parse" ELSE "fallback"]
    /\ UNCHANGED call_in

TitlesParseLine ==
    /\ call.pc = "parse" /\ call.i <= Len(call_in.lines)
    /\ call' = parse_line(call, call_in.lines[call.i])
    /\ UNCHANGED call_in

\* `return titles[:10]`
TitlesReturnParsed ==
    /\ call.pc = "parse" /\ call.i > Len(call_in.lines)
    /\ call' = [call EXCEPT !.pc = "returned", !.titles = PySlicePrefix(@, 10)]
    /\ UNCHANGED call_in

TitlesReturnTemplates ==
    /\ call.pc = "fallback"
    /\ call' = [call EXCEPT !.pc = "returned", !.titles = template_titles("topic")]
    /\ UNCHANGED call_in


(***************************************************************************)
(* ComplianceChecker.  A visual's source is a sequence of name parts (the  *)
(* names of the two lists are not substrings of one another, so `name in   *)
(* source` is the presence of the part); a script is the set of distinct   *)
(* positive phrases it contains and its number of words.                   *)
(***************************************************************************)
SAFE_VISUAL_SOURCES == <<"pexels", "pixabay", "pollinations", "unsplash", "ai_generated">>
RISKY_SOURCES == <<"youtube", "twitter", "tiktok", "instagram", "unknown">>

positive_phrases ==
    <<"in my analysis", "what this means", "the implications", "looking at this",
      "my take on", "as we can see", "this suggests", "the data shows", "according to",
      "experts believe", "studies indicate", "research shows">>

\* str.lower() on a name part
lower(part) ==
    CASE part = "YouTube" -> "youtube"
      [] part = "Pexels" -> "pexels"
      [] OTHER -> part

\* `any(name in source for name in names)` with source already lowered
any_in(names, source) ==
    \E n \in 1..Len(names) : \E i \in 1..Len(source) : source[i] = names[n]

VisualSources ==
    {<<>>, <<"pexels">>, <<"Pexels">>, <<"youtube">>, <<"YouTube">>, <<"unknown">>, <<"vimeo">>,
     <<"youtube", "pexels">>}

ScriptTexts ==
    {[empty |-> TRUE, phrases |-> {}, word_count |-> 0]}
    \cup {[empty |-> FALSE, phrases |-> {positive_phrases[i] : i \in 1..k}, word_count |-> w] :
            k \in 0..Len(positive_phrases), w \in {300, 1999, 2000}}

ComplianceInputs ==
    [visuals : UNION {[1..n -> VisualSources] : n \in 0..MaxCheckedVisuals},
     script_text : ScriptTexts]

compliance_idle ==
    [pc |-> "none", i |-> 1, safe_count |-> 0, risky_count |-> 0, issues |-> 0,
     visual_status |-> "", originality_status |-> "", scores |-> <<>>, report |-> None]

\* the body of the loop of check_visuals
check_visual(k, visual) ==
    LET source == [i \in 1..Len(visual) |-> lower(visual[i])]
    IN  IF any_in(SAFE_VISUAL_SOURCES, source)
        THEN [k EXCEPT !.safe_count = @ + 1, !.i = @ + 1]
        ELSE IF any_in(RISKY_SOURCES, source)
        THEN [k EXCEPT !.risky_count = @ + 1, !.issues = @ + 1, !.i = @ + 1]
        ELSE [k EXCEPT !.issues = @ + 1, !.i = @ + 1]

\* mutant: risky visuals only make the status a warning
visual_status_without_risk(safe_count, risky_count, n) ==
    IF safe_count = n THEN "safe" ELSE "warning"

\* the status check_visuals returns
visual_status_of(safe_count, risky_count, n) ==
    IF risky_count > 0 THEN "risk"
    ELSE IF safe_count = n THEN "safe"
    ELSE "warning"

visual_score(status) ==
    IF status = "safe" THEN 100 ELSE IF status = "warning" THEN 50 ELSE 20

\* check_script_originality
originality_score(script_text) ==
    10 * Cardinality(script_text.phrases) + (IF script_text.word_count >= 2000 THEN 20 ELSE 0)

check_script_originality(script_text) ==
    IF originality_score(script_text) >= 50 THEN "high"
    ELSE IF originality_score(script_text) >= 30 THEN "medium"
    ELSE "low"

originality_points(status) ==
    IF status = "high" THEN 100 ELSE IF status = "medium" THEN 70 ELSE 40

RECURSIVE SumSeq(_)
SumSeq(xs) == IF xs = <<>> THEN 0 ELSE xs[1] + SumSeq(Tail(xs))

\* mutant: the scores are added, not averaged
overall_score_summed(scores) == IF scores # <<>> THEN SumSeq(scores) ELSE 0

\* `sum(scores) // len(scores) if scores else 0`
overall_score(scores) == IF scores # <<>> THEN SumSeq(scores) \div Len(scores) ELSE 0

\* the ComplianceReport built at the end of run_full_check
compliance_report(k, script_text) ==
    LET score == overall_score(k.scores)
        passed == score >= 70 /\ k.visual_status # "risk"
    IN  [passed |-> passed, score |-> score, visual_safety |-> k.visual_status,
         content_originality |-> IF ~script_text.empty THEN k.originality_status ELSE "unknown",
         monetization_ready |-> TRUE /\ passed]

\* `if visuals:` ... else "unknown", 50
RunFullCheck ==
    /\ call.pc = "none"
    /\ call' = IF call_in.visuals # <<>>
               THEN [compliance_idle EXCEPT !.pc = "check_visuals"]
               ELSE [compliance_idle EXCEPT !.pc = "originality", !.visual_status = "unknown",
                                            !.scores = <<50>>]
    /\ UNCHANGED call_in

CheckVisual ==
    /\ call.pc = "check_visuals" /\ call.i <= Len(call_in.visuals)
    /\ call' = check_visual(call, call_in.visuals[call.i])
    /\ UNCHANGED call_in

CheckVisualsReturn ==
    /\ call.pc = "check_visuals" /\ call.i > Len(call_in.visuals)
    /\ LET status == visual_status_of(call.safe_count, call.risky_count, Len(call_in.visuals))
       IN  call' = [call EXCEPT !.pc = "originality", !.visual_status = status,
                                !.scores = Append(@, visual_score(status))]
    /\ UNCHANGED call_in

\* `if script_text:` ... else "unknown", 50
CheckOriginality ==
    /\ call.pc = "originality"
    /\ call' = IF ~call_in.script_text.empty
               THEN LET status == check_script_originality(call_in.script_text)
                    IN  [call EXCEPT !.pc = "report", !.originality_status = status,
                                     !.issues = IF status = "low" THEN @ + 1 ELSE @,
                                     !.scores = Append(@, originality_points(status))]
               ELSE [call EXCEPT !.pc = "report", !.originality_status = "unknown",
                                 !.scores = Append(@, 50)]
    /\ UNCHANGED call_in

\* the report is built, written by _log_report and returned
ComplianceReturn ==
    /\ call.pc = "report"
    /\ call' = [call EXCEPT !.pc = "returned",
                            !.report = compliance_report(call, call_in.script_text)]
    /\ UNCHANGED call_in


(***************************************************************************)
(* Persisted records over several runs.  A file name is a record [kind,    *)
(* key, ts] (key and ts are the timestamps, to the second, that the code   *)
(* puts into the name; 0 where the name has none); a file's content is a   *)
(* set of entries [key, run, n], run being the run that wrote the entry.   *)
(* Runs are sequential, one process each, and a run starts in a later      *)
(* second than the one before it ended.                                    *)
(***************************************************************************)
FileName(kind, key, ts) == [kind |-> kind, key |-> key, ts |-> ts]

\* open(name, 'w') followed by json.dump(content)
write_file(files, name, content) ==
    [n \in DOMAIN files \cup {name} |-> IF n = name THEN content ELSE files[n]]

\* the file's entries, or none when it does not exist
read_file(files, name) == IF name \in DOMAIN files THEN files[name] ELSE {}

no_files == [n \in {} |-> {}]

persist_idle ==
    [pc |-> "idle", files |-> no_files, clock |-> 1, run |-> 0, uploads |-> 0,
     task_id |-> 0, project_id |-> 0, learned_patterns |-> {}]

\* the errors a failing run records as its first error thought
RunErrors == {"script", "assembly"}

\* ReasoningEngine() at import (_load_knowledge), VideoGeneratorPipeline()
\* (task_id) and the first lines of run() (project_id)
RunStart ==
    /\ call.pc = "idle" /\ call.run < MaxRuns /\ call.clock < MaxClock
    /\ call' = [call EXCEPT !.pc = "running", !.run = @ + 1, !.clock = @ + 1,
                            !.task_id = call.clock + 1, !.project_id = call.clock + 1,
                            !.learned_patterns = read_file(call.files, FileName("patterns", 0, 0))]
    /\ UNCHANGED call_in

\* time passes
Tick ==
    /\ call.clock < MaxClock
    /\ call' = [call EXCEPT !.clock = @ + 1]
    /\ UNCHANGED call_in

\* AssemblyMetrics.finalize(success) at the end of assemble()
FinalizeMetrics ==
    /\ call.pc = "running"
    /\ \E success \in BOOLEAN :
          call' = [call EXCEPT
                      !.pc = IF success THEN "assembled" ELSE "failed_assembly",
                      !.files = write_file(@, FileName("assembly", call.project_id, call.clock),
                                           {[key |-> "metrics", run |-> call.run, n |-> 0]})]
    /\ UNCHANGED call_in

\* an earlier stage raises, nothing was written yet
StageFails ==
    /\ call.pc = "running"
    /\ call' = [call EXCEPT !.pc = "failed_script"]
    /\ UNCHANGED call_in

\* QualityMetrics.save(OUTPUT_DIR), after assembly or with skip_render
SaveQualityMetrics ==
    /\ call.pc \in {"running", "assembled"}
    /\ call' = [call EXCEPT
                   !.pc = "saved",
                   !.files = write_file(@, FileName("quality_metrics", 0, 0),
                                        {[key |-> "quality", run |-> call.run, n |-> 0]})]
    /\ UNCHANGED call_in

\* self.learned_patterns[key] = {...}: the entry under the key is replaced
store_pattern(patterns, key, run, n) ==
    {p \in patterns : p.key # key} \cup {[key |-> key, run |-> run, n |-> n]}

success_count(patterns, key) ==
    IF \E p \in patterns : p.key = key THEN (CHOOSE p \in patterns : p.key = key).n ELSE 0

\* end_reasoning(success, outcome): patterns extracted, chain file written,
\* _save_knowledge
persist_end_reasoning(k, success, error) ==
    LET patterns == IF success
                    THEN store_pattern(k.learned_patterns, "goal", k.run,
                                       success_count(k.learned_patterns, "goal") + 1)
                    ELSE store_pattern(k.learned_patterns, error, k.run, 0)
        chain_file == FileName("chain", k.task_id, k.clock)
        with_chain == write_file(k.files, chain_file, {[key |-> "chain", run |-> k.run, n |-> 0]})
    IN  [k EXCEPT !.pc = "idle", !.learned_patterns = patterns,
                  !.files = write_file(with_chain, FileName("patterns", 0, 0), patterns)]

EndReasoningSuccess ==
    /\ call.pc = "saved"
    /\ call' = persist_end_reasoning(call, TRUE, "")
    /\ UNCHANGED call_in

EndReasoningFailure ==
    /\ call.pc \in {"failed_script", "failed_assembly"}
    /\ call' = persist_end_reasoning(call, FALSE,
                                     IF call.pc = "failed_script" THEN "script" ELSE "assembly")
    /\ UNCHANGED call_in

\* YouTubeUploader(): _load_history; upload_video: append and _save_history
UploadVideo ==
    /\ call.pc = "idle" /\ call.uploads < MaxUploads
    /\ LET history_file == FileName("youtube_history", 0, 0)
           upload_history == read_file(call.files, history_file)
       IN  call' = [call EXCEPT
                       !.uploads = @ + 1,
                       !.files = write_file(@, history_file,
                                   upload_history \cup {[key |-> "upload", run |-> call.run,
                                                         n |-> call.uploads + 1]})]
    /\ UNCHANGED call_in


(***************************************************************************)
(* Voiceover.generate and _combine_chunks.  A chunk of the narration is    *)
(* given by the number of attempts of its synthesis that fail and by the   *)
(* length in milliseconds of its audio; loading the chunk files and the    *)
(* export of the combined audio are taken to succeed.                      *)
(***************************************************************************)
PauseMs == 300

ChunkLengths == {200, 1000}

VoiceInputs ==
    UNION {[1..n -> [fails : 0..chunk_cfg.retry_count, ms : ChunkLengths]] :
              n \in 0..MaxVoiceChunks}

voice_idle ==
    [pc |-> "none", i |-> 1, chunk_files |-> <<>>, errors |-> <<>>, combined |-> <<>>,
     duration |-> 0, exc |-> ""]

\* mutant: the path of a failed chunk is appended as well
voice_chunk_keeps_failed(k, i, fails) ==
    LET st == wrapper(chunk_cfg, answers(chunk_cfg, fails, "chunk.mp3", "gTTSError"))
    IN  IF st.pc = "raised"
        THEN [k EXCEPT !.errors = Append(@, i), !.chunk_files = Append(@, i), !.i = @ + 1]
        ELSE [k EXCEPT !.chunk_files = Append(@, i), !.i = @ + 1]

\* the body of the loop over the chunks: _generate_chunk in its try block
voice_chunk(k, i, fails) ==
    LET st == wrapper(chunk_cfg, answers(chunk_cfg, fails, "chunk.mp3", "gTTSError"))
    IN  IF st.pc = "raised"
        THEN [k EXCEPT !.errors = Append(@, i), !.i = @ + 1]
        ELSE [k EXCEPT !.chunk_files = Append(@, i), !.i = @ + 1]

\* _combine_chunks: `combined += chunk_audio + pause` for every chunk file
RECURSIVE combine_chunks(_, _, _)
combine_chunks(chunk_files, chunks, j) ==
    IF j > Len(chunk_files) THEN <<>>
    ELSE <<[kind |-> "chunk", chunk |-> chunk_files[j], ms |-> chunks[chunk_files[j]].ms],
           [kind |-> "pause", chunk |-> 0, ms |-> PauseMs]>>
         \o combine_chunks(chunk_files, chunks, j + 1)

\* len(audio): the length of a sequence of segments
RECURSIVE audio_len(_)
audio_len(segments) ==
    IF segments = <<>> THEN 0 ELSE segments[1].ms + audio_len(Tail(segments))

\* generate(): the text is cleaned and cut into chunks
VoiceGenerate ==
    /\ call.pc = "none"
    /\ call' = [voice_idle EXCEPT !.pc = "chunks"]
    /\ UNCHANGED call_in

VoiceChunk ==
    /\ call.pc = "chunks" /\ call.i <= Len(call_in)
    /\ call' = voice_chunk(call, call.i, call_in[call.i].fails)
    /\ UNCHANGED call_in

\* `if not chunk_files: raise RuntimeError`
VoiceRaise ==
    /\ call.pc = "chunks" /\ call.i > Len(call_in)
    /\ call.chunk_files = <<>>
    /\ call' = [call EXCEPT !.pc = "raised", !.exc = "RuntimeError: No audio chunks generated"]
    /\ UNCHANGED call_in

\* combine, export, log the duration, remove the chunk files, return
VoiceCombine ==
    /\ call.pc = "chunks" /\ call.i > Len(call_in)
    /\ call.chunk_files # <<>>
    /\ LET combined == combine_chunks(call.chunk_files, call_in, 1)
       IN  call' = [call EXCEPT !.pc = "returned", !.combined = combined,
                                !.duration = audio_len(combined)]
    /\ UNCHANGED call_in


(***************************************************************************)
(* VideoAssembler._extract_shorts.  The total duration is a whole number   *)
(* of seconds; the positions are kept in hundredths of a second, where     *)
(* 3%, 30% and 50% of it are exact.                                        *)
(***************************************************************************)
TotalDurations == {0, 1, 50, 84, 85, 117, 118, 119, 600, 1966, 1967, 2400}

ShortsInputs ==
    [total_duration : TotalDurations, mkdir_ok : BOOLEAN,
     exports : [1..ShortsPositions -> BOOLEAN]]

\* clip_positions, as (start, end) in hundredths of a second
clip_positions(total_duration) ==
    << <<0, Min(5900, 3 * total_duration)>>,
       <<30 * total_duration, 30 * total_duration + 5900>>,
       <<50 * total_duration, 50 * total_duration + 5900>> >>

shorts_idle == [pc |-> "none", i |-> 1, shorts_paths |-> <<>>, warnings |-> <<>>]

\* mutant: no window is skipped
window_exceeds_never(end, total_duration) == FALSE

\* `if end > total_duration: continue`
window_exceeds(end, total_duration) == end > 100 * total_duration

\* the body of the loop for position i: the clip video.subclip(start,
\* min(end, start + 59)) is exported, or the failure is logged
extract_short(k, i, total_duration, export_ok) ==
    LET start == clip_positions(total_duration)[i][1]
        end == clip_positions(total_duration)[i][2]
    IN  IF window_exceeds(end, total_duration) THEN [k EXCEPT !.i = @ + 1]
        ELSE IF export_ok
        THEN [k EXCEPT !.i = @ + 1,
                       !.shorts_paths = Append(@, [short |-> i, start |-> start,
                                                    end |-> Min(end, start + 5900)])]
        ELSE [k EXCEPT !.i = @ + 1, !.warnings = Append(@, i)]

\* shorts_dir.mkdir(exist_ok=True) is outside every try block
ExtractShorts ==
    /\ call.pc = "none"
    /\ call' = [shorts_idle EXCEPT !.pc = IF call_in.mkdir_ok THEN "loop" ELSE "raised"]
    /\ UNCHANGED call_in

ExtractShort ==
    /\ call.pc = "loop" /\ call.i <= ShortsPositions
    /\ call' = extract_short(call, call.i, call_in.total_duration, call_in.exports[call.i])
    /\ UNCHANGED call_in

ExtractShortsReturn ==
    /\ call.pc = "loop" /\ call.i > ShortsPositions
    /\ call' = [call EXCEPT !.pc = "returned"]
    /\ UNCHANGED call_in


(***************************************************************************)
(* ComplianceChecker.check_script_originality on its own.  A script is     *)
(* given by the positive phrases it contains, the number of times each of  *)
(* them occurs, and its number of words.                                   *)
(***************************************************************************)
OriginalityInputs ==
    {[empty |-> FALSE, phrases |-> {positive_phrases[i] : i \in 1..k},
      occurrences |-> [p \in {positive_phrases[i] : i \in 1..k} |-> n], word_count |-> w] :
        k \in 0..Len(positive_phrases), n \in 1..MaxOccurrences, w \in {300, 1999, 2000, 2100}}

originality_idle == [pc |-> "none", originality_score |-> 0, status |-> "", issues |-> 0]

\* the loop over positive_phrases and the length bonus
ScoreScript ==
    /\ call.pc = "none"
    /\ call' = [originality_idle EXCEPT !.pc = "scored",
                                        !.originality_score = originality_score(call_in)]
    /\ UNCHANGED call_in

\* the status is determined and returned with the issues
ClassifyScript ==
    /\ call.pc = "scored"
    /\ call' = [call EXCEPT !.pc = "returned",
                            !.status = check_script_originality(call_in),
                            !.issues = IF check_script_originality(call_in) = "low" THEN 1 ELSE 0]
    /\ UNCHANGED call_in


(***************************************************************************)
(* Visual sourcing with the identifiers of the visuals (step 3 of run()).  *)
(* A visual is the pair of its origin and of what determines its id: the   *)
(* provider's id of a stock result, or the prompt of an AI image, whose id *)
(* is pollinations_{hash(prompt) % 10000000}.                              *)
(***************************************************************************)
StockIds == <<"s01", "s02", "s03", "s04", "s05", "s06", "s07", "s08", "s09", "s10", "s11", "s12">>

\* the stock searches find the first `found` results, the first of them a
\* second time under another keyword when `repeated`; the script has the
\* [VISUAL: ...] cues `cues`
SourcingInputs ==
    [found : 0..Len(StockIds), repeated : BOOLEAN,
     cues : UNION {[1..n -> {"c1", "c2"}] : n \in 0..MaxScriptCues}]

stock_results(in) ==
    [i \in 1..in.found |-> <<"stock", StockIds[i]>>]
    \o (IF in.repeated /\ in.found > 0 THEN << <<"stock", StockIds[1]>> >> ELSE <<>>)

\* generate_ai_images_from_script with the prompts of the images
ai_images_from_script(cues, count) ==
    LET visuals == [i \in 1..Len(PySlicePrefix(cues, count)) |-> <<"cue", cues[i]>>]
    IN  IF Len(visuals) < count THEN pad_with_generic(visuals, count) ELSE visuals

\* the deduplication loop of collect_visuals_for_topic
RECURSIVE unique_visuals(_, _)
unique_visuals(all_visuals, seen_ids) ==
    IF all_visuals = <<>> THEN <<>>
    ELSE IF all_visuals[1] \in seen_ids THEN unique_visuals(Tail(all_visuals), seen_ids)
    ELSE <<all_visuals[1]>> \o unique_visuals(Tail(all_visuals), seen_ids \cup {all_visuals[1]})

\* collect_visuals_for_topic with the visuals themselves
collect_visuals(in, target_count) ==
    LET stock == stock_results(in)
        count == IF target_count - Len(stock) > 5 THEN target_count - Len(stock) ELSE 5
        all_visuals == stock \o ai_images_from_script(in.cues, count)
    IN  PySlicePrefix(unique_visuals(all_visuals, {}), target_count)

\* run(): `if len(visuals) < 10: ... visuals.extend(additional)`
top_up(visuals, cues) ==
    IF Len(visuals) < 10
    THEN visuals \o ai_images_from_script(cues, 15 - Len(visuals))
    ELSE visuals

sourcing_idle == [pc |-> "none", visuals |-> <<>>, topped_up |-> FALSE]

\* visual_sourcer.collect_visuals_for_topic(title, script, target_count=15)
SourcingCollect ==
    /\ call.pc = "none"
    /\ call' = [sourcing_idle EXCEPT !.pc = "collected", !.visuals = collect_visuals(call_in, 15)]
    /\ UNCHANGED call_in

\* the top-up, then the list is handed to download_all
SourcingTopUp ==
    /\ call.pc = "collected"
    /\ call' = [call EXCEPT !.pc = "download_all", !.visuals = top_up(call.visuals, call_in.cues),
                            !.topped_up = Len(call.visuals) < 10]
    /\ UNCHANGED call_in


(***************************************************************************)
(* utils.QualityMetrics                                                    *)
(***************************************************************************)
\* QualityMetrics(): the metrics dictionary, and the calls made so far
quality_new ==
    [script_words |-> 0, estimated_duration |-> 0, visuals_count |-> 0, risk_score |-> 0,
     viral_score |-> 0, retention_estimate |-> 0, calls |-> <<>>]

\* calculate_scores
calculate_scores(q) ==
    LET words == q.script_words
        duration == q.estimated_duration
        v1 == q.viral_score + (IF 840 <= duration /\ duration <= 1200 THEN 30 ELSE 0)
        v2 == v1 + (IF 2000 <= words /\ words <= 2700 THEN 20 ELSE 0)
        v3 == v2 + (IF q.visuals_count >= 10 THEN 20 ELSE 0)
    IN  [q EXCEPT !.risk_score = 10, !.viral_score = v3,
                  !.retention_estimate = Min(70, 40 + (words \div 100))]

\* update(script_words=..., estimated_duration=...)
QualityUpdateScript ==
    /\ Len(call.calls) < MaxQualityCalls
    /\ \E words \in {0, 2000, 3500}, duration \in {0, 900} :
          call' = [call EXCEPT !.script_words = words, !.estimated_duration = duration,
                               !.calls = Append(@, "update")]
    /\ UNCHANGED call_in

\* update(visuals_count=...)
QualityUpdateVisuals ==
    /\ Len(call.calls) < MaxQualityCalls
    /\ \E count \in {0, 10} :
          call' = [call EXCEPT !.visuals_count = count, !.calls = Append(@, "update")]
    /\ UNCHANGED call_in

\* save(output_path): the scores are calculated and the metrics written
QualitySave ==
    /\ Len(call.calls) < MaxQualityCalls
    /\ LET q == calculate_scores(call)
       IN  call' = [q EXCEPT !.calls = Append(@, "save")]
    /\ UNCHANGED call_in

\* summary(): the scores are calculated and formatted
QualitySummary ==
    /\ Len(call.calls) < MaxQualityCalls
    /\ call' = [calculate_scores(call) EXCEPT !.calls = Append(@, "summary")]
    /\ UNCHANGED call_in


(***************************************************************************)
(* The global ReasoningEngine called from anywhere: begin_reasoning,       *)
(* think, decide and end_reasoning in any order.  `call` remembers what    *)
(* was passed to think() and decide() since the last end_reasoning.        *)
(***************************************************************************)
\* the texts passed by the successive calls
EntryTexts == <<"first", "second", "third", "fourth", "fifth", "sixth", "seventh", "eighth">>

engine_calls ==
    [n |-> 0, last |-> "none", thoughts |-> <<>>, decisions |-> <<>>,
     ended_thoughts |-> <<>>, ended_decisions |-> <<>>, chains_before |-> 0]

EngineBegin ==
    /\ call.n < MaxEngineCalls
    /\ Becomes(begin_reasoning(ctx, "task", "goal"))
    /\ call' = [call EXCEPT !.n = @ + 1, !.last = "begin_reasoning"]
    /\ UNCHANGED call_in

EngineThink ==
    /\ call.n < MaxEngineCalls
    /\ Becomes(think(ctx, "analysis", <<"thought", EntryTexts[call.n + 1]>>))
    /\ call' = [call EXCEPT !.n = @ + 1, !.last = "think",
                            !.thoughts = Append(@, Thought("analysis",
                                                           <<"thought", EntryTexts[call.n + 1]>>))]
    /\ UNCHANGED call_in

EngineDecide ==
    /\ call.n < MaxEngineCalls
    /\ Becomes(decide(ctx, EntryTexts[call.n + 1]))
    /\ call' = [call EXCEPT !.n = @ + 1, !.last = "decide",
                            !.decisions = Append(@, EntryTexts[call.n + 1])]
    /\ UNCHANGED call_in

EngineEnd ==
    /\ call.n < MaxEngineCalls
    /\ \E success \in BOOLEAN : Becomes(end_reasoning(ctx, success, "outcome"))
    /\ call' = [call EXCEPT !.n = @ + 1, !.last = "end_reasoning",
                            !.thoughts = <<>>, !.decisions = <<>>,
                            !.ended_thoughts = call.thoughts,
                            !.ended_decisions = call.decisions,
                            !.chains_before = Len(disk.chains)]
    /\ UNCHANGED call_in

(***************************************************************************)
(* Rest states of the other components (filled in below).                  *)
(***************************************************************************)
TopicIdle ==
    /\ td_in = [gn_fails |-> 0, gn_list |-> <<>>, subs |-> [i \in 1..Len(reddit_subs) |-> "fail"]]
    /\ td = td_idle

PipeIdle == pl_in = pl_in_idle /\ pl = pl_idle /\ chain = chain_none /\ disk = disk_empty

AsmIdle ==
    /\ asm_in = [visuals |-> <<>>, audio_ok |-> FALSE, audio_duration |-> 1,
                 add_captions |-> FALSE, generate_shorts |-> FALSE]
    /\ asm = asm_idle

CallIdle == call_in = None /\ call = None

OthersIdle == RetryIdle /\ TopicIdle /\ PipeIdle /\ AsmIdle

(***************************************************************************)
(* SpecRetry: one decorated function, called again and again.              *)
(***************************************************************************)
InitRetry ==
    /\ he_cfg \in he_configs
    /\ he = wrapper_idle
    /\ TopicIdle /\ PipeIdle /\ AsmIdle /\ CallIdle

NextRetry ==
    \/ WrapperCall /\ UNCHANGED <<topicVars, pipeVars, asmVars, callVars>>
    \/ AttemptReturns /\ UNCHANGED <<topicVars, pipeVars, asmVars, callVars>>
    \/ AttemptRaises /\ UNCHANGED <<topicVars, pipeVars, asmVars, callVars>>

SpecRetry == InitRetry /\ [][NextRetry]_vars

\* number of failed invocations so far in the current call
he_failed == Cardinality({i \in 1..Len(he.outcomes) : he.outcomes[i] = "fail"})

\* C1: the operation is invoked at most N times, never again after its first
\* success, whose result is returned; after the k-th failure (k < N) the
\* wrapper sleeps exactly D * 2^(k-1) before attempt k+1, and it does not
\* sleep after the N-th failure.
C1_BoundedRetryBackoff ==
    he_cfg.retry_count >= 1 =>
        /\ he.calls = Len(he.outcomes)
        /\ he.calls <= he_cfg.retry_count
        /\ \A i \in 1..Len(he.outcomes) :
               he.outcomes[i] = "ok" =>
                   /\ i = Len(he.outcomes)
                   /\ he.pc = "returned"
                   /\ he.result = "result"
        /\ Len(he.sleeps) = Min(he_failed, he_cfg.retry_count - 1)
        /\ \A k \in 1..Len(he.sleeps) :
               he.sleeps[k] = he_cfg.retry_delay * Pow2(k - 1)
        /\ he.pc = "running" => he.calls = Len(he.sleeps)

\* a call that failed twice, slept D and 2D, and is on its last attempt
C1_Witness ==
    /\ he_cfg.retry_count = 3
    /\ he_cfg.retry_delay = 5
    /\ he.outcomes = <<"fail", "fail", "fail">>
    /\ he.sleeps = <<5, 10>>
    /\ he.pc \in {"returned", "raised"}

\* C2 (as claimed): when all N attempts failed, a supplied fallback (empty
\* list, empty dict, False or None) is returned and nothing is raised; with no
\* fallback supplied the exception of the last attempt is propagated.
C2_FallbackOrPropagate ==
    (/\ he_cfg.retry_count >= 1
     /\ he.pc \in {"returned", "raised"}
     /\ he_failed = he_cfg.retry_count) =>
        /\ he_cfg.supplied => (he.pc = "returned" /\ he.result = he_cfg.fallback)
        /\ ~he_cfg.supplied => (he.pc = "raised" /\ he.exc = he_cfg.retry_count)

\* C21 (as claimed): every invocation of the wrapped function, the first
\* successful one included, has a log record of its attempt.
C21_EveryInvocationLogged ==
    \A i \in 1..he.calls : \E r \in 1..Len(he.log) : he.log[r].attempt = i

(***************************************************************************)
(* SpecTopic: discover() and get_best_topic() against every feed answer.   *)
(***************************************************************************)
InitTopic ==
    /\ td_in \in FeedAnswers
    /\ td = td_idle
    /\ RetryIdle /\ PipeIdle /\ AsmIdle /\ CallIdle

NextTopic ==
    \/ \E limit \in 0..MaxLimit : Discover(limit) /\ UNCHANGED <<retryVars, pipeVars, asmVars, callVars>>
    \/ GetBestTopic /\ UNCHANGED <<retryVars, pipeVars, asmVars, callVars>>
    \/ TopicReturn /\ UNCHANGED <<retryVars, pipeVars, asmVars, callVars>>

SpecTopic == InitTopic /\ [][NextTopic]_vars

\* the topics of the sources that answered: the list of a Google News fetch
\* that succeeded within its attempts, and the fresh post of every subreddit
\* whose request did not raise
td_survivors ==
    (IF td_in.gn_fails < fetch_cfg.retry_count THEN td_in.gn_list ELSE <<>>)
    \o Concat([i \in 1..Len(reddit_subs) |->
                  IF td_in.subs[i] = "post" /\ RedditPool[i].published.days_old <= 7
                  THEN <<RedditPool[i]>> ELSE <<>>])

AllSourcesFail ==
    /\ td_in.gn_fails >= fetch_cfg.retry_count
    /\ \A i \in 1..Len(reddit_subs) : td_in.subs[i] = "fail"

ClaimKeys == [x \in PoolTitles |-> PySlicePrefix(Lower(x), 50)]

\* the result of discover(limit) is ordered by score descending, has at most
\* `limit` topics, no two of them with the same key, and each is a
\* highest-scored fetched topic of its key
RankedAndUnique(keys) ==
    (td.op = "discover" /\ ~td.raised) =>
        /\ \A i \in 1..(Len(td.result) - 1) : td.result[i].score >= td.result[i + 1].score
        /\ Len(td.result) <= td.limit
        /\ \A i, j \in 1..Len(td.result) :
               keys[td.result[i].title] = keys[td.result[j].title] => i = j
        /\ \A i \in 1..Len(td.result) : \A u \in 1..Len(td.all_topics) :
               keys[td.all_topics[u].title] = keys[td.result[i].title] =>
                   td.all_topics[u].score <= td.result[i].score

\* C4 (as claimed): ranked, truncated and unique with the key being the first
\* 50 characters of the lower-cased title.
C4_RankedUniqueByLoweredPrefix == RankedAndUnique(ClaimKeys)

\* C4 (amended): ranked, truncated and unique with the key being the
\* lower-cased first 50 characters of the title, title[:50].lower().
C4_RankedUniqueByPrefixLowered == RankedAndUnique(TitleKeys)

\* a lower-scored topic was dropped for its key although the limit had room
C4_Witness ==
    /\ td.op = "discover"
    /\ Len(td.result) >= 2
    /\ Len(td.result) < td.limit
    /\ \E u \in 1..Len(td.all_topics) : \E i \in 1..Len(td.result) :
           /\ TitleKeys[td.all_topics[u].title] = TitleKeys[td.result[i].title]
           /\ td.all_topics[u].score < td.result[i].score

\* C5 (as claimed): the headline "AI layoffs hit 2 million workers in 2026"
\* from the Google News source, published today, scores at least 75
\* (+20 keyword, +15 "layoff", +10 year, +30 recency).
C5_ScenarioScoresAtLeast75 ==
    \A i \in 1..Len(td.all_topics) :
        (/\ td.all_topics[i].title = ScenarioTitle
         /\ td.all_topics[i].source = <<"google_news">>
         /\ td.all_topics[i].published.days_old = 0) =>
            td.all_topics[i].score >= 75


(***************************************************************************)
(* SpecPipeline: one process constructs the pipeline and calls run() once. *)
(***************************************************************************)
InitPipeline ==
    /\ RetryIdle /\ TopicIdle /\ AsmIdle /\ CallIdle
    /\ pl_in \in PipelineInputs
    /\ LET c == pipeline_init(pl_in)
       IN  pl = c.pl /\ chain = c.chain /\ disk = c.disk

NextPipeline ==
    \/ RunEnter /\ UNCHANGED <<retryVars, topicVars, asmVars, callVars>>
    \/ TopicDiscoveryStage /\ UNCHANGED <<retryVars, topicVars, asmVars, callVars>>
    \/ ScriptGenerationStage /\ UNCHANGED <<retryVars, topicVars, asmVars, callVars>>
    \/ ScriptAttempt /\ UNCHANGED <<retryVars, topicVars, asmVars, callVars>>
    \/ VisualSourcingStage /\ UNCHANGED <<retryVars, topicVars, asmVars, callVars>>
    \/ VoiceoverGenerationStage /\ UNCHANGED <<retryVars, topicVars, asmVars, callVars>>
    \/ VideoAssemblyStage /\ UNCHANGED <<retryVars, topicVars, asmVars, callVars>>
    \/ MetadataGenerationStage /\ UNCHANGED <<retryVars, topicVars, asmVars, callVars>>
    \/ ExportingAssetsStage /\ UNCHANGED <<retryVars, topicVars, asmVars, callVars>>
    \/ QualityReportStage /\ UNCHANGED <<retryVars, topicVars, asmVars, callVars>>
    \/ Interrupt /\ UNCHANGED <<retryVars, topicVars, asmVars, callVars>>

SpecPipeline == InitPipeline /\ [][NextPipeline]_vars

(***************************************************************************)
(* SpecAssemble: one assemble() call on a project.                         *)
(***************************************************************************)
InitAssemble ==
    /\ RetryIdle /\ TopicIdle /\ PipeIdle /\ CallIdle
    /\ asm_in \in AssembleInputs
    /\ asm = asm_idle

NextAssemble ==
    \/ AssembleCall /\ UNCHANGED <<retryVars, topicVars, pipeVars, callVars>>
    \/ LoadAudio /\ UNCHANGED <<retryVars, topicVars, pipeVars, callVars>>
    \/ CalculateTiming /\ UNCHANGED <<retryVars, topicVars, pipeVars, callVars>>
    \/ LoadVisuals /\ UNCHANGED <<retryVars, topicVars, pipeVars, callVars>>
    \/ ConcatenateVisuals /\ UNCHANGED <<retryVars, topicVars, pipeVars, callVars>>
    \/ AddCaptions /\ UNCHANGED <<retryVars, topicVars, pipeVars, callVars>>
    \/ AddAudio /\ UNCHANGED <<retryVars, topicVars, pipeVars, callVars>>
    \/ RenderVideo /\ UNCHANGED <<retryVars, topicVars, pipeVars, callVars>>
    \/ GenerateShorts /\ UNCHANGED <<retryVars, topicVars, pipeVars, callVars>>
    \/ AssembleReturn /\ UNCHANGED <<retryVars, topicVars, pipeVars, callVars>>

SpecAssemble == InitAssemble /\ [][NextAssemble]_vars


(***************************************************************************)
(* Claims on SpecPipeline.                                                 *)
(***************************************************************************)
AllThreeFailed == pl.script.outcomes = <<"fail", "fail", "fail">>

LaterStages == {StageOrder[i] : i \in 3..Len(StageOrder)}

IsPrefix(xs, ys) == Len(xs) <= Len(ys) /\ \A i \in 1..Len(xs) : xs[i] = ys[i]

\* C7: the stages start in the fixed order, each at most once; a stage
\* starts only directly after the previous stage has returned; the attempts
\* of a retried call lie between the start and the end of its stage; and
\* after a raise nothing else happens in the run.
C7_StagesOneAtATimeInOrder ==
    /\ IsPrefix(pl.stages, StageOrder)
    /\ \A i \in 1..Len(pl.trace) :
          /\ pl.trace[i][1] = "start" /\ i > 1 =>
                /\ pl.trace[i - 1][1] = "end"
                /\ pl.trace[i][2] = next_stage(pl.trace[i - 1][2])
          /\ pl.trace[i][1] = "start" /\ i = 1 => pl.trace[i][2] = StageOrder[1]
          /\ pl.trace[i][1] \in {"attempt", "end"} =>
                /\ i > 1
                /\ pl.trace[i - 1][1] \in {"start", "attempt"}
                /\ pl.trace[i - 1][2] = pl.trace[i][2]
          /\ pl.trace[i][1] = "raise" => i = Len(pl.trace) /\ pl.pc \in {"raised", "interrupted"}
    /\ pl.pc \in {"raised", "interrupted"} => pl.trace[Len(pl.trace)][1] = "raise"

\* a run in which a later stage raised after script generation needed a retry
C7_Witness ==
    /\ pl.pc = "raised"
    /\ pl.trace[Len(pl.trace)] = <<"raise", "Metadata Generation">>
    /\ pl.script.outcomes = <<"fail", "ok">>
    /\ Len(pl.stages) = 6

\* C8 (as claimed): a run that has returned has persisted exactly one
\* compliance report.
C8_OneComplianceReportPerRun ==
    pl.pc = "returned" => Len(disk.compliance_reports) = 1

\* the chain of the run: the current one, or the one end_reasoning persisted
run_chain ==
    IF chain.active THEN chain
    ELSE IF disk.chains # <<>> THEN disk.chains[Len(disk.chains)]
    ELSE chain_none

\* the chain has an error entry about the failure
Recorded(f) ==
    \E i \in 1..Len(run_chain.thoughts) :
        /\ run_chain.thoughts[i].category = "error"
        /\ run_chain.thoughts[i].content[2] = f.what

\* C9 (as claimed): once run() is over, every failure that occurred in it has
\* an error entry in the reasoning chain; and when run() has raised, the
\* chain holds an error entry and was ended with success = False.
C9_EveryFailureInReasoningChain ==
    pl.pc \in {"returned", "raised", "interrupted"} =>
        /\ \A i \in 1..Len(pl.failures) : Recorded(pl.failures[i])
        /\ pl.pc # "returned" =>
              /\ ~chain.active
              /\ disk.chains # <<>>
              /\ ~run_chain.success
              /\ \E i \in 1..Len(run_chain.thoughts) : run_chain.thoughts[i].category = "error"

(***************************************************************************)
(* Claims on SpecAssemble.                                                 *)
(***************************************************************************)
\* C10: with zero visuals assemble() never renders and never returns: no
\* file is written to the output directory and output_path stays unset; once
\* the call is over it has raised, its metrics hold a non-recoverable error
\* and were finalized and saved with success = False.
C10_ZeroVisualsFailsBeforeRender ==
    Len(asm_in.visuals) = 0 =>
        /\ asm.output_dir = {} /\ asm.output_path = None
        /\ asm.pc \notin {"render_video", "generate_shorts", "finalize", "returned"}
        /\ \A i \in 1..Len(asm.metrics.steps) : asm.metrics.steps[i].name # "render_video"
        /\ asm.pc = "raised" =>
              /\ \E i \in 1..Len(asm.metrics.errors) : ~asm.metrics.errors[i].recoverable
              /\ asm.metrics.finalized /\ ~asm.metrics.success
              /\ Len(asm.logs_dir) = 1 /\ ~asm.logs_dir[1].success

C10_Witness ==
    /\ Len(asm_in.visuals) = 0
    /\ asm.pc = "raised"
    /\ asm.exc = "ValueError: No visuals to assemble"
    /\ asm.metrics.steps # <<>>


\* the clips stand one per visual, in order, a placeholder where the load
\* failed, each as long as narration_duration / visual_count
OneClipPerVisual ==
    /\ Len(asm.visual_clips) = Len(asm_in.visuals)
    /\ \A i \in 1..Len(asm.visual_clips) :
          /\ asm.visual_clips[i].visual = i
          /\ asm.visual_clips[i].kind =
                IF asm_in.visuals[i] = "clip" THEN "clip" ELSE "placeholder"
          /\ asm.visual_clips[i].duration =
                FloatDiv(FloatOf(asm_in.audio_duration), Len(asm_in.visuals))

VisualsLoaded == \E i \in 1..Len(asm.metrics.steps) : asm.metrics.steps[i].name = "load_visuals"

Concatenated ==
    \E i \in 1..Len(asm.metrics.steps) : asm.metrics.steps[i].name = "concatenate_visuals"

\* m * 2^e as an integer number of units of 2^-(FloatBits + 3)
Scaled(x) == x.m * Pow2(x.e + FloatBits + 3)

\* C11 (as claimed): once the visuals are loaded there is one clip per
\* visual in order, of duration narration_duration / visual_count each, and
\* the durations of the sequence sum to exactly the narration duration.
C11_ClipsSumToNarrationExactly ==
    /\ VisualsLoaded => OneClipPerVisual
    /\ Concatenated => asm.result_duration = FloatOf(asm_in.audio_duration)

\* C11 (amended): the same, with the sum equal to the narration duration up
\* to rounding: it differs from it by at most visual_count units in the last
\* place of the narration duration.
C11_ClipsSumToNarrationWithinRounding ==
    /\ VisualsLoaded => OneClipPerVisual
    /\ Concatenated =>
          LET sum == Scaled(asm.result_duration)
              total == Scaled(FloatOf(asm_in.audio_duration))
              diff == IF sum > total THEN sum - total ELSE total - sum
          IN  diff * Pow2(FloatBits - 1) <= Len(asm_in.visuals) * total

C11_Witness ==
    /\ Concatenated
    /\ Len(asm_in.visuals) = 6
    /\ asm_in.visuals[2] = "none" /\ asm_in.visuals[3] = "clip"
    /\ asm.result_duration # FloatOf(asm_in.audio_duration)


InitDownload ==
    /\ OthersIdle
    /\ call_in \in DownloadInputs
    /\ call = download_idle

NextDownload ==
    \/ DownloadAllCall /\ UNCHANGED otherVars
    \/ DownloadNext /\ UNCHANGED otherVars
    \/ DownloadAllReturn /\ UNCHANGED otherVars

SpecDownload == InitDownload /\ [][NextDownload]_vars

\* the ids of the input whose file in the download directory is the whole
\* body of the visual
FullyDownloaded ==
    SelectSeq(call_in.visuals, LAMBDA v : call.files[v] = "complete")

\* C13 (as claimed): download_all does not raise, and what it returns are,
\* in the input order, exactly the visuals whose download succeeded, each
\* with its local path set; a visual whose every download attempt fails is
\* not in the result.
C13_DownloadAllReturnsTheDownloaded ==
    /\ ~call.raised
    /\ call.pc = "returned" =>
          /\ Len(call.downloaded) = Len(FullyDownloaded)
          /\ \A i \in 1..Len(call.downloaded) :
                /\ call.downloaded[i].id = FullyDownloaded[i]
                /\ call.downloaded[i].local_path = call.downloaded[i].id
          /\ \A i \in 1..Len(call.downloaded) :
                call_in.server[call.downloaded[i].id] \in {"ok", "ok_on_retry"}

\* C27 (as claimed): a visual that download_visual or download_all reports
\* with its local path set has a completely written file; a file left behind
\* by a failed attempt never makes a retry or a later call report the visual.
C27_LocalPathIsCompleteFile ==
    \A i \in 1..Len(call.downloaded) :
        call.files[call.downloaded[i].local_path] = "complete"

(***************************************************************************)
(* SpecAiImages: the AI-image step and the collector on one script.        *)
(***************************************************************************)
InitAiImages ==
    /\ OthersIdle
    /\ call_in \in AiImageInputs
    /\ call = ai_idle

NextAiImages ==
    \/ GenerateAiImages /\ UNCHANGED otherVars
    \/ CollectVisuals /\ UNCHANGED otherVars
    \/ AiImagesReturn /\ UNCHANGED otherVars

SpecAiImages == InitAiImages /\ [][NextAiImages]_vars

\* C14 (as claimed): the AI-image step returns one image per cue, at most
\* count of them, followed by generic images up to exactly count images in
\* all; and on a script without cues the collector returns exactly 15
\* visuals.
C14_AiImagesPaddedToCount ==
    /\ call.op = "generate_ai_images_from_script" =>
          /\ Len(call.images) = call_in.count
          /\ \A i \in 1..Len(call.images) :
                call.images[i][1] = IF i <= Min(call_in.cues, call_in.count)
                                    THEN "cue" ELSE "generic"
    /\ call.op = "collect_visuals_for_topic" /\ call_in.cues = 0 => call.collected = 15


(***************************************************************************)
(* SpecChunk: one chunk_text(text, max_chars) call.                        *)
(***************************************************************************)
InitChunk ==
    /\ OthersIdle
    /\ call_in \in ChunkInputs
    /\ call = chunk_idle

NextChunk ==
    \/ ChunkTextCall /\ UNCHANGED otherVars
    \/ ChunkWord /\ UNCHANGED otherVars
    \/ ChunkTextReturn /\ UNCHANGED otherVars

SpecChunk == InitChunk /\ [][NextChunk]_vars

\* the words of all chunks, in order
RECURSIVE WordsOfChunks(_)
WordsOfChunks(chunks) ==
    IF chunks = <<>> THEN <<>> ELSE Split(chunks[1]) \o WordsOfChunks(Tail(chunks))

\* no word of the text is split, lost, repeated or moved
WholeWords == WordsOfChunks(call.chunks) = Split(call_in.text)

\* C15 (as claimed): every returned chunk is at most max_chars long and the
\* chunks consist of the whole words of the text.
C15_ChunksWithinBudget ==
    call.pc = "returned" =>
        /\ WholeWords
        /\ \A i \in 1..Len(call.chunks) : Len(call.chunks[i]) <= call_in.max_chars

\* C15 (amended): the chunks consist of the whole words of the text, and a
\* chunk longer than max_chars is a single word that is itself longer than
\* max_chars; so when no word exceeds the budget, no chunk does.
C15_ChunksWithinBudgetUnlessWordTooLong ==
    call.pc = "returned" =>
        /\ WholeWords
        /\ \A i \in 1..Len(call.chunks) :
              \/ Len(call.chunks[i]) <= call_in.max_chars
              \/ Len(Split(call.chunks[i])) = 1

\* two words share a chunk and a third one starts the next chunk
C15_Witness ==
    /\ call.pc = "returned"
    /\ Len(call.chunks) = 2
    /\ Len(Split(call.chunks[1])) = 2
    /\ \A i \in 1..Len(call.words) : Len(call.words[i]) <= call_in.max_chars

\* C16 (as claimed): the chunks joined with single blanks, whitespace
\* collapsed, are the cleaned text again, with nothing added in front or
\* behind.
C16_ChunksRejoinToText ==
    call.pc = "returned" => CollapseWhitespace(JoinSpace(call.chunks)) = call_in.text


(***************************************************************************)
(* SpecTitles: one _generate_titles(topic) call.                           *)
(***************************************************************************)
InitTitles ==
    /\ OthersIdle
    /\ call_in \in TitleInputs
    /\ call = titles_idle

NextTitles ==
    \/ GenerateTitlesCall /\ UNCHANGED otherVars
    \/ TitlesParseLine /\ UNCHANGED otherVars
    \/ TitlesReturnParsed /\ UNCHANGED otherVars
    \/ TitlesReturnTemplates /\ UNCHANGED otherVars

SpecTitles == InitTitles /\ [][NextTitles]_vars

\* C17 (as claimed): title generation returns exactly 10 titles, the
\* templated ones whenever 10 titles cannot be parsed from the response.
C17_AlwaysTenTitles ==
    call.pc = "returned" =>
        /\ Len(call.titles) = 10
        /\ call_in.service # "text" => call.titles = template_titles("topic")


(***************************************************************************)
(* SpecCompliance: one run_full_check(visuals, script_text) call.          *)
(***************************************************************************)
InitCompliance ==
    /\ OthersIdle
    /\ call_in \in ComplianceInputs
    /\ call = compliance_idle

NextCompliance ==
    \/ RunFullCheck /\ UNCHANGED otherVars
    \/ CheckVisual /\ UNCHANGED otherVars
    \/ CheckVisualsReturn /\ UNCHANGED otherVars
    \/ CheckOriginality /\ UNCHANGED otherVars
    \/ ComplianceReturn /\ UNCHANGED otherVars

SpecCompliance == InitCompliance /\ [][NextCompliance]_vars

\* a visual whose source is one of RISKY_SOURCES (in any letter case)
IsRiskySource(visual) ==
    Len(visual) = 1 /\ \E n \in 1..Len(RISKY_SOURCES) : lower(visual[1]) = RISKY_SOURCES[n]

HasRiskyVisual == \E i \in 1..Len(call_in.visuals) : IsRiskySource(call_in.visuals[i])

\* C18: when some visual's source is a risky source, the report has
\* visual_safety = risk, passed = False and monetization_ready = False,
\* whatever the script.
C18_RiskyVisualFailsCheck ==
    (call.pc = "returned" /\ HasRiskyVisual) =>
        /\ call.report.visual_safety = "risk"
        /\ ~call.report.passed
        /\ ~call.report.monetization_ready

\* a risky visual among safe ones, with a script of high originality
C18_Witness ==
    /\ call.pc = "returned" /\ HasRiskyVisual
    /\ \E i \in 1..Len(call_in.visuals) : call_in.visuals[i] = <<"pexels">>
    /\ call.report.content_originality = "high"
    /\ call.report.visual_safety = "risk"

ExpectedVisualScore ==
    IF call_in.visuals = <<>> THEN 50
    ELSE IF call.report.visual_safety = "safe" THEN 100
    ELSE IF call.report.visual_safety = "warning" THEN 50
    ELSE 20

ExpectedOriginalityScore ==
    IF call_in.script_text.empty THEN 50
    ELSE IF call.report.content_originality = "high" THEN 100
    ELSE IF call.report.content_originality = "medium" THEN 70
    ELSE 40

\* C19: the score is the mean of the visual score and the originality
\* score, lies in 0..100, passed holds exactly when score >= 70 and the
\* visual status is not risk, and monetization_ready equals passed.
C19_ScoreIsMeanAndDecidesPassed ==
    call.pc = "returned" =>
        /\ 2 * call.report.score = ExpectedVisualScore + ExpectedOriginalityScore
        /\ call.report.score \in 0..100
        /\ call.report.passed = (call.report.score >= 70 /\ call.report.visual_safety # "risk")
        /\ call.report.monetization_ready = call.report.passed

\* a report that passes with a warning on the visuals
C19_Witness ==
    /\ call.pc = "returned"
    /\ call.report.visual_safety = "warning"
    /\ call.report.content_originality = "high"
    /\ call.report.score = 75
    /\ call.report.passed


(***************************************************************************)
(* SpecPersist: runs of the pipeline, one after the other, and uploads.    *)
(***************************************************************************)
InitPersist ==
    /\ OthersIdle
    /\ call_in = None
    /\ call = persist_idle

NextPersist ==
    \/ RunStart /\ UNCHANGED otherVars
    \/ Tick /\ UNCHANGED otherVars
    \/ FinalizeMetrics /\ UNCHANGED otherVars
    \/ StageFails /\ UNCHANGED otherVars
    \/ SaveQualityMetrics /\ UNCHANGED otherVars
    \/ EndReasoningSuccess /\ UNCHANGED otherVars
    \/ EndReasoningFailure /\ UNCHANGED otherVars
    \/ UploadVideo /\ UNCHANGED otherVars

SpecPersist == InitPersist /\ [][NextPersist]_vars

\* every entry of the named kinds of file is still there after the step
KeepsRecords(kinds) ==
    \A name \in DOMAIN call.files :
        name.kind \in kinds =>
            /\ name \in DOMAIN call'.files
            /\ call.files[name] \subseteq call'.files[name]

\* C20 (as claimed): no step of a run removes or replaces a persisted
\* record: chains, patterns, assembly metrics, quality metrics and upload
\* history only grow.
C20_PersistedRecordsOnlyGrow ==
    [][KeepsRecords({"chain", "patterns", "assembly", "quality_metrics", "youtube_history"})]_vars


\* the step records of a complete assemble() call with the given options
StepOrder(in) ==
    <<"load_audio", "calculate_timing", "load_visuals", "concatenate_visuals">>
    \o (IF in.add_captions THEN <<"add_captions">> ELSE <<>>)
    \o <<"add_audio", "render_video">>
    \o (IF in.generate_shorts THEN <<"generate_shorts">> ELSE <<>>)

StepNames == [i \in 1..Len(asm.metrics.steps) |-> asm.metrics.steps[i].name]

\* C22: the step records of a call are at every moment a prefix of the fixed
\* order (add_captions and generate_shorts only when enabled), numbered 1, 2,
\* 3, ... without gap or repetition; a call that returns has recorded all of
\* them.
C22_StepsInFixedOrder ==
    /\ IsPrefix(StepNames, StepOrder(asm_in))
    /\ \A i \in 1..Len(asm.metrics.steps) : asm.metrics.steps[i].step = i
    /\ asm.pc = "returned" => StepNames = StepOrder(asm_in)

\* a call with captions and shorts that recorded all eight steps and returned
C22_Witness ==
    /\ asm.pc = "returned"
    /\ asm_in.add_captions /\ asm_in.generate_shorts
    /\ Len(asm.metrics.steps) = 8
    /\ asm.metrics.steps[8] = [step |-> 8, name |-> "generate_shorts"]


(***************************************************************************)
(* SpecVoice: one Voiceover.generate call.                                 *)
(***************************************************************************)
InitVoice ==
    /\ OthersIdle
    /\ call_in \in VoiceInputs
    /\ call = voice_idle

NextVoice ==
    \/ VoiceGenerate /\ UNCHANGED otherVars
    \/ VoiceChunk /\ UNCHANGED otherVars
    \/ VoiceRaise /\ UNCHANGED otherVars
    \/ VoiceCombine /\ UNCHANGED otherVars

SpecVoice == InitVoice /\ [][NextVoice]_vars

\* the chunks whose synthesis succeeds within the attempts, in their order
RECURSIVE Synthesized(_, _)
Synthesized(chunks, i) ==
    IF i > Len(chunks) THEN <<>>
    ELSE (IF chunks[i].fails < chunk_cfg.retry_count THEN <<i>> ELSE <<>>)
         \o Synthesized(chunks, i + 1)

\* the chunks whose audio is in the combined narration, in their order
RECURSIVE ChunksOf(_)
ChunksOf(segments) ==
    IF segments = <<>> THEN <<>>
    ELSE (IF segments[1].kind = "chunk" THEN <<segments[1].chunk>> ELSE <<>>)
         \o ChunksOf(Tail(segments))

RECURSIVE ChunkMs(_, _)
ChunkMs(chunks, ids) ==
    IF ids = <<>> THEN 0 ELSE chunks[ids[1]].ms + ChunkMs(chunks, Tail(ids))

\* C24 (as claimed): the combined narration of n chunks lasts the sum of the
\* chunk lengths plus n - 1 pauses of 300 ms.
C24_PausesBetweenChunksOnly ==
    call.pc = "returned" =>
        call.duration = ChunkMs(call_in, call.chunk_files)
                        + 300 * (Len(call.chunk_files) - 1)


(***************************************************************************)
(* SpecShorts: one _extract_shorts call.                                   *)
(***************************************************************************)
InitShorts ==
    /\ OthersIdle
    /\ call_in \in ShortsInputs
    /\ call = shorts_idle

NextShorts ==
    \/ ExtractShorts /\ UNCHANGED otherVars
    \/ ExtractShort /\ UNCHANGED otherVars
    \/ ExtractShortsReturn /\ UNCHANGED otherVars

SpecShorts == InitShorts /\ [][NextShorts]_vars

\* the positions whose window of 59 s (3% of the video for the first one)
\* ends within the video
WindowsThatFit ==
    {i \in 1..ShortsPositions :
        CASE i = 1 -> TRUE
          [] i = 2 -> 30 * call_in.total_duration + 5900 <= 100 * call_in.total_duration
          [] i = 3 -> 50 * call_in.total_duration + 5900 <= 100 * call_in.total_duration}

InitOriginality ==
    /\ OthersIdle
    /\ call_in \in OriginalityInputs
    /\ call = originality_idle

NextOriginality ==
    \/ ScoreScript /\ UNCHANGED otherVars
    \/ ClassifyScript /\ UNCHANGED otherVars

SpecOriginality == InitOriginality /\ [][NextOriginality]_vars

\* the number of occurrences of positive phrases in the script
RECURSIVE Occurrences(_, _)
Occurrences(script_text, i) ==
    IF i > Len(positive_phrases) THEN 0
    ELSE (IF positive_phrases[i] \in script_text.phrases
          THEN script_text.occurrences[positive_phrases[i]] ELSE 0)
         + Occurrences(script_text, i + 1)

\* C26 (as claimed): the score is 10 for each occurrence of a positive phrase
\* plus 20 for at least 2000 words, the tier is high from 50, medium from 30
\* and low below; 6 occurrences and 2100 words give 80 and high.
C26_TenPerOccurrence ==
    call.pc = "returned" =>
        /\ call.originality_score
              = 10 * Occurrences(call_in, 1) + (IF call_in.word_count >= 2000 THEN 20 ELSE 0)
        /\ call.status = IF call.originality_score >= 50 THEN "high"
                         ELSE IF call.originality_score >= 30 THEN "medium" ELSE "low"
        /\ (Occurrences(call_in, 1) = 6 /\ call_in.word_count = 2100) =>
               (call.originality_score = 80 /\ call.status = "high")


(***************************************************************************)
(* SpecSourcing: the visual sourcing of one run, up to download_all.       *)
(***************************************************************************)
InitSourcing ==
    /\ OthersIdle
    /\ call_in \in SourcingInputs
    /\ call = sourcing_idle

NextSourcing ==
    \/ SourcingCollect /\ UNCHANGED otherVars
    \/ SourcingTopUp /\ UNCHANGED otherVars

SpecSourcing == InitSourcing /\ [][NextSourcing]_vars

NoTwoAlike(visuals) ==
    \A i \in 1..Len(visuals) : \A j \in 1..Len(visuals) : visuals[i] = visuals[j] => i = j

\* C28 (as claimed): the list the orchestrator hands to download_all holds
\* no two visuals with the same identifier, topped up or not.
C28_NoDuplicateVisuals ==
    call.pc = "download_all" => NoTwoAlike(call.visuals)


(***************************************************************************)
(* SpecQuality: one QualityMetrics object and the calls made on it.        *)
(***************************************************************************)
InitQuality ==
    /\ OthersIdle
    /\ call_in = None
    /\ call = quality_new

NextQuality ==
    \/ QualityUpdateScript /\ UNCHANGED otherVars
    \/ QualityUpdateVisuals /\ UNCHANGED otherVars
    \/ QualitySave /\ UNCHANGED otherVars
    \/ QualitySummary /\ UNCHANGED otherVars

SpecQuality == InitQuality /\ [][NextQuality]_vars

\* the viral score of the current metrics, computed once from 0
ViralScoreOnce ==
    (IF 840 <= call.estimated_duration /\ call.estimated_duration <= 1200 THEN 30 ELSE 0)
    + (IF 2000 <= call.script_words /\ call.script_words <= 2700 THEN 20 ELSE 0)
    + (IF call.visuals_count >= 10 THEN 20 ELSE 0)

\* C29 (as claimed): the scores stay within 0..100, and right after any
\* save() or summary() they are what a single calculate_scores() gives for
\* the current metrics, however many times they were computed before.
C29_ScoresComputedOnce ==
    /\ call.viral_score \in 0..100
    /\ call.risk_score \in 0..100
    /\ call.retention_estimate \in 0..100
    /\ (call.calls # <<>> /\ call.calls[Len(call.calls)] \in {"save", "summary"}) =>
          /\ call.viral_score = ViralScoreOnce
          /\ call.risk_score = 10
          /\ call.retention_estimate = Min(70, 40 + (call.script_words \div 100))


(***************************************************************************)
(* SpecReasoning: any sequence of calls on the global reasoning engine.    *)
(***************************************************************************)
InitReasoning ==
    /\ OthersIdle
    /\ call_in = None
    /\ call = engine_calls

NextReasoning ==
    \/ EngineBegin /\ UNCHANGED <<retryVars, topicVars, asmVars>>
    \/ EngineThink /\ UNCHANGED <<retryVars, topicVars, asmVars>>
    \/ EngineDecide /\ UNCHANGED <<retryVars, topicVars, asmVars>>
    \/ EngineEnd /\ UNCHANGED <<retryVars, topicVars, asmVars>>

SpecReasoning == InitReasoning /\ [][NextReasoning]_vars

InSeq(x, xs) == \E i \in 1..Len(xs) : xs[i] = x

\* C30 (as claimed): right after an end_reasoning no chain is active, it
\* wrote at most one chain, and every thought and decision passed since the
\* end_reasoning before it is in the chain it wrote.
C30_NoReasoningEntryLost ==
    call.last = "end_reasoning" =>
        /\ ~chain.active
        /\ Len(disk.chains) <= call.chains_before + 1
        /\ (call.ended_thoughts # <<>> \/ call.ended_decisions # <<>>) =>
              /\ Len(disk.chains) = call.chains_before + 1
              /\ \A i \in 1..Len(call.ended_thoughts) :
                    InSeq(call.ended_thoughts[i], disk.chains[Len(disk.chains)].thoughts)
              /\ \A i \in 1..Len(call.ended_decisions) :
                    InSeq(call.ended_decisions[i], disk.chains[Len(disk.chains)].decisions_made)

====
